---- MODULE Spec2Model ----
(***************************************************************************)
(* Smorti retail chatbot: the URL sanitizer (core/text.py,                 *)
(* prev/ai_fallback.py), the v0.31 turn handler with its retry decorator   *)
(* (CLAUDE.py) and the ChatState turn handler (core/assistant.py).         *)
(*                                                                         *)
(* Three specifications share the module:                                  *)
(*   SpecSan    the sanitizers as pure functions over bounded texts        *)
(*   SpecClaude handle_chat_message of CLAUDE.py, one turn after another   *)
(*   Spec       handle_message of core/assistant.py, one turn after another*)
(* A specification leaves the variables of the other two at their initial  *)
(* values.                                                                 *)
(***************************************************************************)
EXTENDS Integers, Sequences, FiniteSets, TLC

VARIABLES
    \* ---- sanitizer (SpecSan) ----
    sanText,      \* the text handed to the sanitizer
    sanExact,     \* allowed_exact
    sanPrefixes,  \* allowed_prefixes
    sanOut,       \* the sanitizer's return value
    sanPc,        \* "input" | "strip" (strip_disallowed_links ran) | "exact" (_sanitize_links_exact ran)
    \* ---- CLAUDE.py handle_chat_message (SpecClaude) ----
    cCatalog,     \* which CSV the ProductCatalog reads
    cSess,        \* session_state[session_id]: introduced, last_intent, mode
    cHist,        \* conversation_history as the handler reads it
    cTurn,        \* the turn in progress, NoTurn between turns
    \* ---- core/assistant.py handle_message (Spec) ----
    state,        \* the ChatState handed to handle_message
    kTurn,        \* the turn in progress, KNoTurn between turns
    \* ---- loading the catalog (SpecLoad) ----
    csvRows,      \* the rows of the products CSV, in file order
    loaded,       \* which loader ran and the products it left
    \* ---- handlers/catalog_flow.py under pipeline_reply (SpecFlow) ----
    fState,       \* the catalog fields of the ChatState
    fShown,       \* the page of the last reply
    \* ---- ProductCatalog.load beside search_products (SpecReload) ----
    rFile,        \* the catalog file on disk
    rDf,          \* self.df
    rHeap,        \* the list objects created so far
    rProducts,    \* self.products: the list object it refers to
    rLoad,        \* the position of the running load
    rSearch,      \* per session: the position of its search and what it read
    \* ---- prev/Test_Full_pipeline.py pipeline_reply (SpecPrice) ----
    pTurn         \* the last message and its reply

sanVars == <<sanText, sanExact, sanPrefixes, sanOut, sanPc>>
claudeVars == <<cCatalog, cSess, cHist, cTurn>>

coreVars == <<state, kTurn>>

loadVars == <<csvRows, loaded>>

flowVars == <<fState, fShown>>

reloadVars == <<rFile, rDf, rHeap, rProducts, rLoad, rSearch>>

vars == <<sanVars, claudeVars, coreVars, loadVars, flowVars, reloadVars, pTurn>>

(***************************************************************************)
(* Texts of the sanitizer are sequences of characters.  The alphabet keeps *)
(* one character of each class the code distinguishes:                     *)
(*   "H"  the scheme letters  http            "C"  the separator  ://      *)
(*   "a" "b"  ordinary URL characters                                      *)
(*   "."  punctuation URL_RE accepts and is_allowed strips (. ; ?)         *)
(*   ")"  punctuation URL_RE stops at (its excluded class)                 *)
(*   " "  a blank or a tab                    "\n" a newline               *)
(***************************************************************************)
Chars == {"H", "C", "a", "b", ".", ")", " ", "\n"}

\* Longest sanitizer input.
MaxLen == 4

\* core/text.py URL_RE: the characters the class [^\s\)\]\}\>,...]+ refuses.
UrlStop == {")", " ", "\n"}

\* The characters is_allowed strips from the right (rstrip(").,;!?...")).
TrailPunct == {".", ")"}

RECURSIVE SeqsUpTo(_, _)
SeqsUpTo(S, n) ==
    IF n = 0 THEN {<<>>}
    ELSE LET shorter == SeqsUpTo(S, n - 1)
         IN  shorter \cup {Append(s, c) : s \in {t \in shorter : Len(t) = n - 1}, c \in S}

IsPrefixOf(p, u) == Len(p) <= Len(u) /\ SubSeq(u, 1, Len(p)) = p

\* URL_RE.match at position i: the exclusive end of the greedy match, or 0.
RECURSIVE RunEnd(_, _)
RunEnd(t, j) == IF j <= Len(t) /\ t[j] \notin UrlStop THEN RunEnd(t, j + 1) ELSE j

UrlEnd(t, i) ==
    IF i + 2 <= Len(t) /\ t[i] = "H" /\ t[i + 1] = "C" /\ t[i + 2] \notin UrlStop
    THEN RunEnd(t, i + 3)
    ELSE 0

\* str.rstrip(chars)
RECURSIVE RStrip(_, _)
RStrip(u, chars) ==
    IF Len(u) > 0 /\ u[Len(u)] \in chars THEN RStrip(SubSeq(u, 1, Len(u) - 1), chars) ELSE u

\* str.strip() of whitespace
RECURSIVE LStripWs(_)
LStripWs(t) == IF Len(t) > 0 /\ t[1] \in {" ", "\n"} THEN LStripWs(Tail(t)) ELSE t

StripWs(t) == RStrip(LStripWs(t), {" ", "\n"})

\* is_allowed of strip_disallowed_links, preceded by the variant that tests p.startswith(u).
is_allowed_reversed(u, exact, prefixes) ==
    LET v == RStrip(StripWs(u), TrailPunct)
    IN  v \in exact \/ \E p \in prefixes : IsPrefixOf(v, p)

is_allowed(u, exact, prefixes) ==
    LET v == RStrip(StripWs(u), TrailPunct)
    IN  v \in exact \/ \E p \in prefixes : IsPrefixOf(p, v)

\* URL_RE.sub(repl, text) of strip_disallowed_links: leftmost, greedy, non-overlapping.
RECURSIVE SubStrip(_, _, _, _)
SubStrip(t, i, exact, prefixes) ==
    IF i > Len(t) THEN <<>>
    ELSE LET e == UrlEnd(t, i)
         IN  IF e = 0 THEN <<t[i]>> \o SubStrip(t, i + 1, exact, prefixes)
             ELSE (IF is_allowed(SubSeq(t, i, e - 1), exact, prefixes)
                   THEN SubSeq(t, i, e - 1) ELSE <<>>)
                  \o SubStrip(t, e, exact, prefixes)

\* re.sub(r"[ \t]{2,}", " ", out)
RECURSIVE CollapseBlanks(_)
CollapseBlanks(t) ==
    IF Len(t) = 0 THEN <<>>
    ELSE IF Len(t) >= 2 /\ t[1] = " " /\ t[2] = " " THEN CollapseBlanks(Tail(t))
    ELSE <<t[1]>> \o CollapseBlanks(Tail(t))

\* re.sub(r"\n{3,}", "\n\n", out)
RECURSIVE CollapseNewlines(_)
CollapseNewlines(t) ==
    IF Len(t) = 0 THEN <<>>
    ELSE IF Len(t) >= 3 /\ t[1] = "\n" /\ t[2] = "\n" /\ t[3] = "\n" THEN CollapseNewlines(Tail(t))
    ELSE <<t[1]>> \o CollapseNewlines(Tail(t))

TidyWhitespace(t) == StripWs(CollapseNewlines(StripWs(CollapseBlanks(t))))

\* core/text.py strip_disallowed_links. (The literal "none" is not a text of this alphabet.)
strip_disallowed_links(t, exact, prefixes) ==
    IF t = <<>> THEN <<>>
    ELSE TidyWhitespace(SubStrip(t, 1, exact, prefixes))

\* prev/ai_fallback.py _sanitize_links_exact: exact allow-list, keeps the stripped URL.
RECURSIVE SubExact(_, _, _)
SubExact(t, i, exact) ==
    IF i > Len(t) THEN <<>>
    ELSE LET e == UrlEnd(t, i)
         IN  IF e = 0 THEN <<t[i]>> \o SubExact(t, i + 1, exact)
             ELSE LET u == RStrip(StripWs(SubSeq(t, i, e - 1)), TrailPunct)
                  IN  (IF u \in exact THEN u ELSE <<>>) \o SubExact(t, e, exact)

sanitize_links_exact(t, exact) ==
    IF t = <<>> THEN t ELSE TidyWhitespace(SubExact(t, 1, exact))

\* The allow-lists the sanitizer is tried with.
ExactSets == {{}, {<<"H", "C", "a">>}}
PrefixSets == {{}, {<<"H", "C", "b">>}}

SanIdle ==
    /\ sanText = <<>>
    /\ sanExact = {}
    /\ sanPrefixes = {}
    /\ sanOut = <<>>
    /\ sanPc = "off"

SanInit ==
    /\ sanText \in SeqsUpTo(Chars, MaxLen)
    /\ sanExact \in ExactSets
    /\ sanPrefixes \in PrefixSets
    /\ sanOut = <<>>
    /\ sanPc = "input"

StripLinks ==
    /\ sanPc = "input"
    /\ sanOut' = strip_disallowed_links(sanText, sanExact, sanPrefixes)
    /\ sanPc' = "strip"
    /\ UNCHANGED <<sanText, sanExact, sanPrefixes, claudeVars, coreVars, loadVars, flowVars, reloadVars, pTurn>>

SanitizeExact ==
    /\ sanPc = "input"
    /\ sanOut' = sanitize_links_exact(sanText, sanExact)
    /\ sanPc' = "exact"
    /\ UNCHANGED <<sanText, sanExact, sanPrefixes, claudeVars, coreVars, loadVars, flowVars, reloadVars, pTurn>>

SanNext == StripLinks \/ SanitizeExact

\* Every URL-shaped substring of a text: the matches of URL_RE.findall.
RECURSIVE UrlsFrom(_, _)
UrlsFrom(t, i) ==
    IF i > Len(t) THEN {}
    ELSE LET e == UrlEnd(t, i)
         IN  IF e = 0 THEN UrlsFrom(t, i + 1)
             ELSE {SubSeq(t, i, e - 1)} \cup UrlsFrom(t, e)

UrlsOf(t) == UrlsFrom(t, 1)

\* A URL is in the allow-list: after its trailing punctuation is put aside it is an
\* allow-listed URL or starts with an allow-listed prefix.
InAllowList(u, exact, prefixes) ==
    \E k \in 1..Len(u) :
        /\ \A j \in (k + 1)..Len(u) : u[j] = "."
        /\ \/ SubSeq(u, 1, k) \in exact
           \/ \E p \in prefixes : IsPrefixOf(p, SubSeq(u, 1, k))

\* C1: every URL-shaped substring left in the output of strip_disallowed_links
\* (and of _sanitize_links_exact, with no prefixes) is in the allow-list; every
\* other URL of the input is gone.
C1_LinkSafety ==
    /\ sanPc = "strip" =>
         \A u \in UrlsOf(sanOut) : InAllowList(u, sanExact, sanPrefixes)
    /\ sanPc = "exact" =>
         \A u \in UrlsOf(sanOut) : InAllowList(u, sanExact, {})

\* The sanitizer met a URL outside the allow-list next to kept text and removed it.
C1_Witness ==
    /\ sanPc = "strip"
    /\ \E u \in UrlsOf(sanText) : ~InAllowList(u, sanExact, sanPrefixes)
    /\ sanExact # {}
    /\ sanOut # <<>>
    /\ UrlsOf(sanOut) = {}


(***************************************************************************)
(* CLAUDE.py (v0.31): handle_chat_message, its classifiers, the catalog     *)
(* filters and the retry decorator around call_groq_api.                   *)
(*                                                                         *)
(* A message is the set of phrases it is made of.  Each phrase stands for  *)
(* one real phrase; the classifier tables below list the phrases each      *)
(* keyword list of the source matches (substring test of the source):      *)
(*   salam       = "السلام عليكم"          salam_full = the same + "ورحمة الله وبركاته" *)
(*   hi          = "hi"                    taqseet    = "كيف التقسيط"      *)
(*   battery     = "battery"               shahn      = "شحن"              *)
(*   daman       = "ضمان"                  lifespan   = "lifespan"         *)
(*   whatsapp    = "whatsapp"              nukta      = "نكتة"             *)
(*   another     = "another"               in_english = "in english"       *)
(*   bil_arabi   = "بالعربي"               boox       = "boox"             *)
(*   monitor     = "monitor"               software   = "software"         *)
(*   case        = "case"                  qissa      = "قصة"              *)
(*   notes       = "notes"                                                 *)
(***************************************************************************)
CWords == {"salam", "salam_full", "hi", "taqseet", "battery", "shahn", "daman",
           "lifespan", "whatsapp", "nukta", "another", "in_english", "bil_arabi",
           "boox", "monitor", "software", "case", "qissa", "notes"}

\* Most phrases in one message.
MaxWords == 2

RECURSIVE SetsUpTo(_, _)
SetsUpTo(S, n) ==
    IF n = 0 THEN {{}}
    ELSE LET smaller == SetsUpTo(S, n - 1)
         IN  smaller \cup {m \cup {w} : m \in smaller, w \in S}

CMessages == SetsUpTo(CWords, MaxWords)

\* Letters of the Arabic block, Latin letters and normalize_arabic tokens of a phrase.
ArLetters(w) ==
    CASE w = "salam" -> 11 [] w = "salam_full" -> 27 [] w = "taqseet" -> 10
      [] w = "shahn" -> 3 [] w = "daman" -> 4 [] w = "nukta" -> 4
      [] w = "bil_arabi" -> 7 [] w = "qissa" -> 3 [] OTHER -> 0

EnLetters(w) ==
    CASE w = "hi" -> 2 [] w = "battery" -> 7 [] w = "lifespan" -> 8 [] w = "whatsapp" -> 8
      [] w = "another" -> 7 [] w = "in_english" -> 9 [] w = "boox" -> 4
      [] w = "monitor" -> 7 [] w = "software" -> 8 [] w = "case" -> 4
      [] w = "notes" -> 5 [] OTHER -> 0

TokensOf(w) ==
    CASE w = "salam_full" -> 5 [] w \in {"salam", "taqseet", "in_english"} -> 2 [] OTHER -> 1

RECURSIVE SumAr(_)
SumAr(m) == IF m = {} THEN 0 ELSE LET w == CHOOSE x \in m : TRUE IN ArLetters(w) + SumAr(m \ {w})
RECURSIVE SumEn(_)
SumEn(m) == IF m = {} THEN 0 ELSE LET w == CHOOSE x \in m : TRUE IN EnLetters(w) + SumEn(m \ {w})
RECURSIVE SumTokens(_)
SumTokens(m) == IF m = {} THEN 0 ELSE LET w == CHOOSE x \in m : TRUE IN TokensOf(w) + SumTokens(m \ {w})

has_any(m, keys) == m \cap keys # {}

is_arabic(m) == SumAr(m) > 0
detect_language_simple(m) == IF SumAr(m) > SumEn(m) THEN "ar" ELSE "en"

\* stable_language(current_text, conversation_history): hist.lastUserLang is
\* detect_language_simple of the last user entry of the history, "none" without one.
stable_language(m, hist) ==
    IF "in_english" \in m THEN "en"
    ELSE IF "bil_arabi" \in m THEN "ar"
    ELSE IF hist.lastUserLang # "none" THEN hist.lastUserLang
    ELSE detect_language_simple(m)

is_joke_request(m) == has_any(m, {"nukta"})
is_another_joke_request(m) == has_any(m, {"another"})

\* greeting_phrases / "السلام عليكم" in joined, at most 4 tokens
GreetingTokenCap == 4
is_arabic_greeting_only(m) ==
    \/ m = {}
    \/ SumTokens(m) <= GreetingTokenCap /\ has_any(m, {"salam", "salam_full"})

is_probably_just_greeting(m) ==
    \/ m = {}
    \/ is_arabic(m) /\ is_arabic_greeting_only(m)
    \/ has_any(m, {"hi"})

already_introduced_from_history(hist) == hist.hasAssistant

detect_explicit_language_switch(m) ==
    IF "bil_arabi" \in m THEN "ar" ELSE IF "in_english" \in m THEN "en" ELSE "none"

is_contact_query(m) == has_any(m, {"whatsapp"})
is_shipping_query(m) == has_any(m, {"shahn"})
is_warranty_query(m) == has_any(m, {"daman"})
is_installment_query(m) == has_any(m, {"taqseet"})
is_battery_query(m) == has_any(m, {"battery", "shahn"})
is_lifespan_query(m) == has_any(m, {"lifespan"})
is_boox_query(m) == has_any(m, {"boox"})
is_reading_device_intent(m) == has_any(m, {})
is_monitor_or_screen_query(m) == has_any(m, {"monitor"})
is_gaming_query(m) == has_any(m, {})
is_programs_query(m) == has_any(m, {"software"})
wants_big_screen(m) == has_any(m, {})
is_notes_intent(m) == has_any(m, {"notes"})
is_accessory_query(m) ==
    IF is_notes_intent(m) THEN FALSE ELSE has_any(m, {"case"})

(***************************************************************************)
(* The catalog.  A product carries what the handler reads of its text:     *)
(*   kinds     which include_any lists of filter_by_type match its blob    *)
(*             ("read", "notes", "disp", "soft") and "acc" when the blob   *)
(*             holds one of ACCESSORY_TERMS                                *)
(*   readscore _score_product for the fixed reading query                  *)
(*   url       its product_url ("" when the CSV has none), screen in 1/100 *)
(*   p1 BOOX Note Air4 C          p2 BOOX Palma 2 (no product_url)         *)
(*   p3 BOOX Pen Tips             p4 BOOX Note Air Magnetic Case           *)
(*   p5 Lenovo ThinkVision Monitor 27     p6 Monitor Stand                 *)
(*   p7 Microsoft Office License                                           *)
(***************************************************************************)
CProduct(id) ==
    CASE id = "p1" -> [id |-> "p1", kinds |-> {"read", "notes"}, readscore |-> 24, url |-> "p1", screen |-> 1030]
      [] id = "p2" -> [id |-> "p2", kinds |-> {"read"}, readscore |-> 15, url |-> "", screen |-> 613]
      [] id = "p3" -> [id |-> "p3", kinds |-> {"read", "notes", "acc"}, readscore |-> 18, url |-> "p3", screen |-> -100]
      [] id = "p4" -> [id |-> "p4", kinds |-> {"read", "notes", "acc"}, readscore |-> 22, url |-> "p4", screen |-> -100]
      [] id = "p5" -> [id |-> "p5", kinds |-> {"disp"}, readscore |-> 19, url |-> "p5", screen |-> 2700]
      [] id = "p6" -> [id |-> "p6", kinds |-> {"disp", "acc"}, readscore |-> 7, url |-> "p6", screen |-> -100]
      [] OTHER     -> [id |-> "p7", kinds |-> {"soft"}, readscore |-> 9, url |-> "p7", screen |-> -100]

\* _score_product of a product for the terms of one phrase.
WordScore(id, w) ==
    CASE w = "boox" /\ id \in {"p1", "p2", "p3", "p4"} -> 9
      [] w = "case" /\ id = "p4" -> 6
      [] w = "monitor" /\ id = "p5" -> 9
      [] w = "monitor" /\ id = "p6" -> 6
      [] w = "hi" /\ id = "p5" -> 10
      [] w = "in_english" /\ id = "p5" -> 10
      [] w = "in_english" /\ id \in {"p1", "p2", "p6"} -> 1
      [] w = "software" /\ id = "p7" -> 1
      [] OTHER -> 0

RECURSIVE QueryScore(_, _)
QueryScore(id, m) ==
    IF m = {} THEN 0
    ELSE LET w == CHOOSE x \in m : TRUE IN WordScore(id, w) + QueryScore(id, m \ {w})

\* The CSV files: the full catalog, one of accessories only, and a missing file.
CatalogRows(c) ==
    CASE c = "full" -> <<"p1", "p2", "p3", "p4", "p5", "p6", "p7">>
      [] c = "accessories" -> <<"p3", "p4", "p6">>
      [] OTHER -> <<>>

CCatalogs == {"full", "accessories", "missing"}

\* list.sort(key=..., reverse=True) on [k, id] pairs: stable, descending.
RECURSIVE InsertDesc(_, _)
InsertDesc(x, sorted) ==
    IF sorted = <<>> THEN <<x>>
    ELSE IF sorted[1].k >= x.k THEN <<sorted[1]>> \o InsertDesc(x, Tail(sorted))
    ELSE <<x>> \o sorted

RECURSIVE SortDescFrom(_, _, _)
SortDescFrom(pairs, i, acc) ==
    IF i > Len(pairs) THEN acc ELSE SortDescFrom(pairs, i + 1, InsertDesc(pairs[i], acc))

SortDesc(pairs) == SortDescFrom(pairs, 1, <<>>)

Ids(pairs) == [i \in 1..Len(pairs) |-> pairs[i].id]
Take(seq, n) == SubSeq(seq, 1, IF Len(seq) < n THEN Len(seq) ELSE n)

\* ProductCatalog.search_products for the fixed reading query and for a message.
search_reading(rows) ==
    Ids(SortDesc(SelectSeq([i \in 1..Len(rows) |-> [k |-> CProduct(rows[i]).readscore, id |-> rows[i]]],
                           LAMBDA x : x.k > 0)))

search_products(rows, m) ==
    Ids(SortDesc(SelectSeq([i \in 1..Len(rows) |-> [k |-> QueryScore(rows[i], m), id |-> rows[i]]],
                           LAMBDA x : x.k > 0)))

filter_by_type(ids, kind) == SelectSeq(ids, LAMBDA id : kind \in CProduct(id).kinds)

\* _exclude_accessories(products)
exclude_accessories(ids) == SelectSeq(ids, LAMBDA id : "acc" \notin CProduct(id).kinds)

sort_by_screen(ids) ==
    Ids(SortDesc([i \in 1..Len(ids) |-> [k |-> CProduct(ids[i]).screen, id |-> ids[i]]]))

SeqRange(seq) == {seq[i] : i \in 1..Len(seq)}

(***************************************************************************)
(* Replies.  A reply is the message kind the handler picked, its language, *)
(* the products it lists and the links it carries.  Links are named:       *)
(* the OFFICIAL_LINKS keys, a product id for that product's product_url,   *)
(* "evil" for a URL that is in neither, and "evil_max3" for such a URL     *)
(* with a deny-listed model name in its path.                              *)
(***************************************************************************)
OfficialLinks == {"store", "tablets", "interactive", "computer", "software", "whatsapp"}

Reply(kind, lang, items, urls) == [kind |-> kind, lang |-> lang, items |-> items, urls |-> urls]

NoReply == Reply("", "", <<>>, {})

\* greeting_reply(lang, first_time, original_text)
greeting_reply(lang, first_time, m) ==
    IF first_time
    THEN IF lang = "ar"
         THEN IF is_arabic_greeting_only(m) THEN Reply("salam_intro", "ar", <<>>, {})
              ELSE Reply("intro", "ar", <<>>, {})
         ELSE Reply("intro", "en", <<>>, {})
    ELSE IF lang = "ar" /\ is_arabic_greeting_only(m) THEN Reply("salam_again", "ar", <<>>, {})
    ELSE IF lang = "ar" THEN Reply("hello_again", "ar", <<>>, {})
    ELSE Reply("hello_again", "en", <<>>, {})

fallback_product_links(topic) ==
    CASE topic = "reading" -> "tablets"
      [] topic = "display" -> "interactive"
      [] topic = "software" -> "software"
      [] OTHER -> "store"

safe_fallback_message(lang, topic) ==
    Reply("safe_fallback", lang, <<>>, {fallback_product_links(topic)})

\* The listing the CSV-only sections build: each product with its own product_url,
\* or the category link when the CSV has none, and the category link at the end.
ProductLink(id, category) == IF CProduct(id).url # "" THEN CProduct(id).url ELSE category

listing(kind, lang, top, category) ==
    Reply(kind, lang, top, {ProductLink(top[i], category) : i \in 1..Len(top)} \cup {category})

(***************************************************************************)
(* The LLM.  An attempt of call_groq_api answers with a text or raises.    *)
(* Texts differ in what the post-processing reads: their links, a deny-    *)
(* listed model name, a bracketed placeholder.                             *)
(***************************************************************************)
LLMTexts == {"plain", "store_url", "evil_url", "official_url", "marker", "marker_in_url",
             "placeholder"}
LLMOutcomes == LLMTexts \cup {"rate_limit", "api_error"}

TextUrls(t) ==
    CASE t = "store_url" -> {"store"}
      [] t = "evil_url" -> {"evil"}
      [] t = "official_url" -> {"software"}
      [] t = "marker_in_url" -> {"evil_max3"}
      [] OTHER -> {}

\* forbidden_markers: whether one of the names is in the words of the text outside
\* its links, in a link, or anywhere in the text as the LLM gave it.
BodyHasMarker(t) == t = "marker"

UrlHasMarker(u) == u = "evil_max3"

ResponseHasMarker(t) == BodyHasMarker(t) \/ \E u \in TextUrls(t) : UrlHasMarker(u)

\* retry_groq_call(max_attempts, delay, backoff): one pass of the while loop of the
\* wrapper, in which func answers with the text o or raises o.  "exit" is the loop
\* guard failing after the increment.
retry_groq_call(max_attempts, backoff, attempt, current_delay, o) ==
    LET again(d, slept) ==
            [next |-> IF attempt + 1 <= max_attempts THEN "loop" ELSE "exit", exc |-> "none",
             attempt |-> attempt + 1, delay |-> d, sleep |-> slept]
        raise(e) == [next |-> "raise", exc |-> e, attempt |-> attempt,
                     delay |-> current_delay, sleep |-> 0]
    IN  IF o = "rate_limit"
        THEN IF attempt = max_attempts THEN raise("GroqRateLimitError")
             ELSE again(current_delay, current_delay * 3)
        ELSE IF o = "api_error"
        THEN IF attempt = max_attempts THEN raise("GroqAPIError")
             ELSE again(current_delay * backoff, current_delay)
        ELSE [next |-> "return", exc |-> "none", attempt |-> attempt,
              delay |-> current_delay, sleep |-> 0]

MaxAttempts == 3
RetryDelay == 2
RetryBackoff == 2

\* @retry_groq_call(max_attempts=3, delay=2) def call_groq_api, preceded by the
\* variant decorated with one attempt more.
call_groq_api_4(attempt, current_delay, o) ==
    retry_groq_call(MaxAttempts + 1, RetryBackoff, attempt, current_delay, o)

call_groq_api(attempt, current_delay, o) ==
    retry_groq_call(MaxAttempts, RetryBackoff, attempt, current_delay, o)

\* scrub_unknown_urls(text, allowed, fallback_url, allow_store=False)
scrub_unknown_urls(urls, allowed, fallback_url) ==
    {IF u = "store" THEN fallback_url ELSE IF u \in allowed THEN u ELSE fallback_url : u \in urls}

(***************************************************************************)
(* handle_chat_message.  A result carries the reply, the session after the *)
(* _set_session calls made so far, and how the try block went on: "none"   *)
(* when it returned, the exception that left it, or "calling" when it      *)
(* reached call_groq_api.                                                  *)
(***************************************************************************)
Result(reply, sess, exc) == [reply |-> reply, sess |-> sess, exc |-> exc]

Returned(reply, sess) == Result(reply, sess, "none")

SetIntent(sess, intent) == [sess EXCEPT !.introduced = TRUE, !.last_intent = intent]

TopN == 3

\* 8) CSV-only: reading devices
ReadingSection(m, sess, language, cat) ==
    IF cat = "missing" THEN Result(NoReply, sess, "CatalogLoadError")
    ELSE LET base == Take(search_reading(CatalogRows(cat)), 70)
             filtered == exclude_accessories(filter_by_type(base, "read"))
             filtered_notes == exclude_accessories(filter_by_type(filtered, "notes"))
             chosen == IF is_notes_intent(m) THEN filtered_notes ELSE filtered
             sorted == IF wants_big_screen(m) THEN sort_by_screen(chosen) ELSE chosen
             top == Take(sorted, TopN)
             sess2 == SetIntent(sess, "products")
         IN  IF is_notes_intent(m) /\ filtered_notes = <<>>
             THEN Returned(Reply("notes_not_found", language, <<>>, {"tablets"}), sess2)
             ELSE IF top = <<>> THEN Returned(safe_fallback_message(language, "reading"), sess2)
             ELSE Returned(listing("reading_list", language, top, "tablets"), sess2)

\* 9) CSV-only: displays
DisplaySection(m, sess, language, cat) ==
    IF cat = "missing" THEN Result(NoReply, sess, "CatalogLoadError")
    ELSE LET base == Take(search_products(CatalogRows(cat), m), 60)
             top == Take(exclude_accessories(filter_by_type(base, "disp")), TopN)
             sess2 == SetIntent(sess, "products")
         IN  IF top = <<>> THEN Returned(safe_fallback_message(language, "display"), sess2)
             ELSE Returned(listing("display_list", language, top, "interactive"), sess2)

\* 10) CSV-only: software licenses
SoftwareSection(m, sess, language, cat) ==
    IF cat = "missing" THEN Result(NoReply, sess, "CatalogLoadError")
    ELSE LET base == Take(search_products(CatalogRows(cat), m), 40)
             top == Take(exclude_accessories(filter_by_type(base, "soft")), TopN)
             sess2 == SetIntent(sess, "products")
         IN  IF top = <<>> THEN Returned(safe_fallback_message(language, "software"), sess2)
             ELSE Returned(listing("software_list", language, top, "software"), sess2)

\* 11) Groq: the topic of the free-form answer, and the post-processing of the text
LlmTopic(m) ==
    IF is_programs_query(m) THEN "software"
    ELSE IF is_monitor_or_screen_query(m) \/ is_gaming_query(m) THEN "display"
    ELSE IF is_boox_query(m) \/ is_reading_device_intent(m) THEN "reading"
    ELSE ""

LlmSection(m, sess, language) == Result(NoReply, SetIntent(sess, "llm"), "calling")

AfterGroq(m, language, text) ==
    LET topic == LlmTopic(m)
        fallback_url == IF topic = "" THEN "tablets" ELSE fallback_product_links(topic)
        scrubbed == scrub_unknown_urls(TextUrls(text), OfficialLinks, fallback_url)
    IN  IF BodyHasMarker(text) \/ \E u \in scrubbed : UrlHasMarker(u)
        THEN safe_fallback_message(language, IF topic = "" THEN "reading" ELSE topic)
        ELSE Reply("llm", language, <<>>, scrubbed)

\* 7) topic / mode lock, then the section the mode selects; preceded by the
\* variant in which a message of no category clears the mode.
ModeSection_unlocked(m, sess, language, cat) ==
    LET keep == sess.mode = "reading" /\ (wants_big_screen(m) \/ is_notes_intent(m))
        wants_reading == keep \/ is_reading_device_intent(m) \/ is_boox_query(m)
        wants_display == ~keep /\ (is_monitor_or_screen_query(m) \/ is_gaming_query(m))
        wants_software == is_programs_query(m)
        mode == IF wants_reading /\ ~wants_display /\ ~wants_software THEN "reading"
                ELSE IF wants_display THEN "display"
                ELSE IF wants_software THEN "software"
                ELSE ""
        sess1 == [sess EXCEPT !.mode = mode]
    IN  IF mode = "reading" /\ ~is_accessory_query(m) THEN ReadingSection(m, sess1, language, cat)
        ELSE IF mode = "display" THEN DisplaySection(m, sess1, language, cat)
        ELSE IF mode = "software" THEN SoftwareSection(m, sess1, language, cat)
        ELSE LlmSection(m, sess1, language)

ModeSection(m, sess, language, cat) ==
    LET keep == sess.mode = "reading" /\ (wants_big_screen(m) \/ is_notes_intent(m))
        wants_reading == keep \/ is_reading_device_intent(m) \/ is_boox_query(m)
        wants_display == ~keep /\ (is_monitor_or_screen_query(m) \/ is_gaming_query(m))
        wants_software == is_programs_query(m)
        mode == IF wants_reading /\ ~wants_display /\ ~wants_software THEN "reading"
                ELSE IF wants_display THEN "display"
                ELSE IF wants_software THEN "software"
                ELSE sess.mode
        sess1 == [sess EXCEPT !.mode = mode]
    IN  IF mode = "reading" /\ ~is_accessory_query(m) THEN ReadingSection(m, sess1, language, cat)
        ELSE IF mode = "display" THEN DisplaySection(m, sess1, language, cat)
        ELSE IF mode = "software" THEN SoftwareSection(m, sess1, language, cat)
        ELSE LlmSection(m, sess1, language)

\* 6) the condition under which the battery facts are returned
battery_facts_apply(m) == is_battery_query(m) /\ (is_boox_query(m) \/ is_reading_device_intent(m))

\* The try block of handle_chat_message.
TryBlock(m, sess, hist, cat) ==
    IF m = {} THEN Result(NoReply, sess, "EmptyInputError")
    ELSE LET language == stable_language(m, hist)
             introduced == sess.introduced \/ already_introduced_from_history(hist)
             lang_switch == detect_explicit_language_switch(m)
             facts(kind) == Returned(Reply(kind, language, <<>>, {}), SetIntent(sess, "facts"))
         IN  IF is_joke_request(m) \/ (is_another_joke_request(m) /\ sess.last_intent = "joke")
             THEN Returned(Reply("joke", language, <<>>, {}), SetIntent(sess, "joke"))
             ELSE IF is_probably_just_greeting(m)
             THEN Returned(greeting_reply(language, ~introduced, m), SetIntent(sess, "greeting"))
             ELSE IF lang_switch # "none"
             THEN Returned(Reply("switched", lang_switch, <<>>, {}), SetIntent(sess, "other"))
             ELSE IF is_contact_query(m)
             THEN Returned(Reply("contact", language, <<>>, {"whatsapp"}), SetIntent(sess, "facts"))
             ELSE IF is_shipping_query(m) THEN facts("shipping_facts")
             ELSE IF is_warranty_query(m) THEN facts("warranty_facts")
             ELSE IF is_installment_query(m) THEN facts("installment_facts")
             ELSE IF battery_facts_apply(m) THEN facts("battery_facts")
             ELSE IF is_lifespan_query(m) THEN facts("lifespan_facts")
             ELSE ModeSection(m, sess, language, cat)

\* The three except clauses of handle_chat_message: the reply for an exception
\* that left the try block with the session at sess.
ExceptClauses(exc, m, sess, language) ==
    LET inferred == IF is_programs_query(m) THEN "software"
                    ELSE IF is_monitor_or_screen_query(m) \/ is_gaming_query(m) THEN "display"
                    ELSE "reading"
    IN  CASE exc = "EmptyInputError" ->
               Reply("empty_prompt", IF is_arabic(m) THEN "ar" ELSE "en", <<>>, {})
          [] exc \in {"GroqRateLimitError", "GroqAPIError"} ->
               safe_fallback_message(language, IF sess.mode # "" THEN sess.mode ELSE inferred)
          [] OTHER ->
               [safe_fallback_message(language, IF sess.mode # "" THEN sess.mode ELSE "reading")
                EXCEPT !.kind = "unexpected_fallback"]

\* The turn in progress: the message, the language of the turn, the reply once
\* there is one, how the try block ended, the wrapper's locals with the calls
\* made (outs) and the sleeps taken (waits), and the number of history entries in
\* the request of call_groq_api (sent).
Turn(m, lang, reply, exc, attempt, delay, outs, waits) ==
    [msg |-> m, lang |-> lang, reply |-> reply, exc |-> exc, attempt |-> attempt,
     delay |-> delay, outs |-> outs, waits |-> waits, sent |-> 0]

NoTurn == Turn({}, "none", NoReply, "start", 0, 0, <<>>, <<>>)

ClaudeIdle ==
    /\ cCatalog = "off"
    /\ cSess = [introduced |-> FALSE, last_intent |-> "none", mode |-> ""]
    /\ cHist = [lastUserLang |-> "none", hasAssistant |-> FALSE, len |-> 0, lastReply |-> ""]
    /\ cTurn = NoTurn

ClaudeInit ==
    /\ cCatalog \in CCatalogs
    /\ cSess = [introduced |-> FALSE, last_intent |-> "none", mode |-> ""]
    /\ cHist = [lastUserLang |-> "none", hasAssistant |-> FALSE, len |-> 0, lastReply |-> ""]
    /\ cTurn = NoTurn

\* main() appends the user line and the reply to the history once the handler has
\* returned.  The loop skips an empty line; an empty message reaches the handler
\* from its other callers, which append nothing for it.  Of the texts of the
\* history the model keeps the language of the last user line and the kind of the
\* last reply.
HistoryAfter(m, hist, reply) ==
    IF m = {} THEN hist
    ELSE [lastUserLang |-> detect_language_simple(m), hasAssistant |-> TRUE,
          len |-> hist.len + 2, lastReply |-> reply.kind]

\* Most entries of the conversation history main() hands to the handler.
MaxClaudeHistory == 12

\* call_groq_api: the entries of conversation_history put into the request, between
\* the system prompt and the prompt of the turn, for a history of n entries.
GroqHistoryMessages(n) == n

\* handle_chat_message(m) up to its return, or up to its call of call_groq_api.
ClaudeReceive(m) ==
    LET language == IF m = {} THEN "none" ELSE stable_language(m, cHist)
        b == TryBlock(m, cSess, cHist, cCatalog)
    IN  /\ cTurn = NoTurn
        /\ m = {} \/ cHist.len <= MaxClaudeHistory
        /\ cSess' = b.sess
        /\ IF b.exc = "calling"
           THEN /\ cTurn' = [Turn(m, language, NoReply, "calling", 1, RetryDelay, <<>>, <<>>)
                                EXCEPT !.sent = GroqHistoryMessages(cHist.len)]
                /\ cHist' = cHist
           ELSE /\ cTurn' = Turn(m, language,
                                IF b.exc = "none" THEN b.reply
                                ELSE ExceptClauses(b.exc, m, b.sess, language),
                                b.exc, 0, 0, <<>>, <<>>)
                /\ cHist' = HistoryAfter(m, cHist, cTurn'.reply)
        /\ UNCHANGED <<cCatalog, sanVars, coreVars, loadVars, flowVars, reloadVars, pTurn>>

\* One attempt of call_groq_api inside the wrapper: the LLM answers with a text or
\* raises, and the handler goes on from there.
GroqAttempt(o) ==
    LET t == cTurn
        w == call_groq_api(t.attempt, t.delay, o)
        outs == Append(t.outs, o)
    IN  /\ t.exc = "calling"
        /\ CASE w.next = "loop" ->
                  /\ cTurn' = [t EXCEPT !.attempt = w.attempt, !.delay = w.delay, !.outs = outs,
                                        !.waits = Append(t.waits, w.sleep)]
                  /\ cHist' = cHist
             [] w.next = "return" ->
                  /\ cTurn' = [t EXCEPT !.reply = AfterGroq(t.msg, t.lang, o), !.exc = "none",
                                        !.outs = outs]
                  /\ cHist' = HistoryAfter(t.msg, cHist, cTurn'.reply)
             [] w.next = "raise" ->
                  /\ cTurn' = [t EXCEPT !.reply = ExceptClauses(w.exc, t.msg, cSess, t.lang),
                                        !.exc = w.exc, !.outs = outs]
                  /\ cHist' = HistoryAfter(t.msg, cHist, cTurn'.reply)
             [] OTHER ->
                  \* the loop ran out: the wrapper re-raises the last API error, or
                  \* returns None when every attempt was rate limited
                  LET exc == IF \E i \in 1..Len(outs) : outs[i] = "api_error"
                             THEN "GroqAPIError" ELSE "none"
                  IN  /\ cTurn' = [t EXCEPT !.reply = IF exc = "none" THEN Reply("none", t.lang, <<>>, {})
                                                      ELSE ExceptClauses(exc, t.msg, cSess, t.lang),
                                            !.exc = exc, !.attempt = w.attempt, !.outs = outs,
                                            !.waits = Append(t.waits, w.sleep)]
                      /\ cHist' = HistoryAfter(t.msg, cHist, cTurn'.reply)
        /\ UNCHANGED <<cCatalog, cSess, sanVars, coreVars, loadVars, flowVars, reloadVars, pTurn>>

\* The reply is printed and the loop is back at input().
ClaudePrompt ==
    /\ cTurn.exc \notin {"start", "calling"}
    /\ cTurn' = NoTurn
    /\ UNCHANGED <<cCatalog, cSess, cHist, sanVars, coreVars, loadVars, flowVars, reloadVars, pTurn>>

ClaudeNext ==
    \/ \E m \in CMessages : ClaudeReceive(m)
    \/ \E o \in LLMOutcomes : GroqAttempt(o)
    \/ ClaudePrompt

(***************************************************************************)
(* Claims about handle_chat_message.                                       *)
(***************************************************************************)
TurnReturned == cTurn.exc \notin {"start", "calling"}

AllRateLimited == cTurn.outs # <<>> /\ \A i \in 1..Len(cTurn.outs) : cTurn.outs[i] = "rate_limit"

\* C3: when every attempt of the LLM call raises a rate-limit error, call_groq_api is
\* attempted at most 3 times in the turn; after the third attempt the handler has
\* returned, and what it returned is the fallback message, not an exception.
C3_RetryBound ==
    AllRateLimited =>
        /\ Len(cTurn.outs) <= 3
        /\ Len(cTurn.outs) = 3 => TurnReturned
        /\ TurnReturned => cTurn.reply.kind = "safe_fallback" /\ cTurn.reply.urls # {}

C3_Witness ==
    /\ cTurn.outs = <<"rate_limit", "rate_limit", "rate_limit">>
    /\ cTurn.waits = <<6, 6>>
    /\ cTurn.reply.kind = "safe_fallback"

\* The replies whose text is written in the source, word for word.
PreWritten ==
    {"joke", "salam_intro", "intro", "salam_again", "hello_again", "switched", "contact",
     "shipping_facts", "warranty_facts", "installment_facts", "battery_facts", "lifespan_facts"}

FaqMatch(m) ==
    \/ is_installment_query(m) \/ is_battery_query(m) \/ is_warranty_query(m)
    \/ is_lifespan_query(m) \/ is_shipping_query(m) \/ is_contact_query(m)

\* C4: a message that matches an FAQ classifier (installment, battery, warranty,
\* lifespan, shipping, contact) is answered, from every session state, with
\* pre-written text and without a call of call_groq_api in the turn.
C4_FaqDeterministic ==
    (cTurn.exc # "start" /\ FaqMatch(cTurn.msg)) =>
        /\ cTurn.exc = "none"
        /\ cTurn.outs = <<>>
        /\ cTurn.reply.kind \in PreWritten

\* C6: a message holding the full Islamic greeting, with or without its extension
\* and whatever follows it, is answered in every session state with a reply that
\* opens with the literal reciprocal greeting.
C6_GreetingIdempotence ==
    (TurnReturned /\ has_any(cTurn.msg, {"salam", "salam_full"})) =>
        cTurn.reply.kind \in {"salam_intro", "salam_again"}

ListingKinds == {"reading_list", "display_list", "software_list"}

\* The listing of a section computed without _exclude_accessories.
UnexcludedListing(kind, m, cat) ==
    LET rows == CatalogRows(cat)
    IN  CASE kind = "display_list" -> Take(filter_by_type(Take(search_products(rows, m), 60), "disp"), TopN)
          [] kind = "software_list" -> Take(filter_by_type(Take(search_products(rows, m), 40), "soft"), TopN)
          [] OTHER ->
               LET filtered == filter_by_type(Take(search_reading(rows), 70), "read")
               IN  Take(IF is_notes_intent(m) THEN filter_by_type(filtered, "notes") ELSE filtered, TopN)

\* The half of C10 about device requests: a listing that answers a message which
\* is not an accessory request holds no accessory.
DeviceListingsExcludeAccessories ==
    (cTurn.exc = "none" /\ cTurn.reply.kind \in ListingKinds /\ ~is_accessory_query(cTurn.msg)) =>
        \A id \in SeqRange(cTurn.reply.items) : "acc" \notin CProduct(id).kinds

\* C10: accessory exclusion is applied exactly when the intent is a device: the
\* products listed for a device request hold no accessory, and the catalog search
\* that answers an accessory request is not accessory-excluded.
C10_AccessoryExclusion ==
    (cTurn.exc = "none" /\ cTurn.reply.kind \in ListingKinds) =>
        IF is_accessory_query(cTurn.msg)
        THEN cTurn.reply.items = UnexcludedListing(cTurn.reply.kind, cTurn.msg, cCatalog)
        ELSE \A id \in SeqRange(cTurn.reply.items) : "acc" \notin CProduct(id).kinds

(***************************************************************************)
(* core/assistant.py: handle_message over a ChatState, with the classifiers *)
(* of core/assistant.py, detect_lang of core/text.py, search_products and   *)
(* group_products of core/catalog.py and ai_rewrite of core/ai.py.          *)
(*                                                                         *)
(* A message is the set of phrases it is made of:                          *)
(*   salam  = "السلام عليكم"      hello  = "hello everybody"   boox = "boox" *)
(*   n1, n2, n9 = "1", "2", "9"   daman  = "ضمان"              shahn = "شحن" *)
(*   mawqi  = "موقعكم"            jeddah = "جدة"               reset = "reset" *)
(*   iphone = "iphone 99"         ultra  = "iphone 99 ultra max"             *)
(*   jawwal = "جوال"              shipping = "shipping"        menu = "menu" *)
(*   return = "return"            n27    = "27"                              *)
(*   shahn_long = "كم سعر الشحن الى قطر"                                     *)
(***************************************************************************)
KWords == {"salam", "hello", "boox", "n1", "n2", "n9", "daman", "shahn", "mawqi",
           "jeddah", "iphone", "ultra", "reset", "jawwal", "shipping", "menu", "return",
           "n27", "shahn_long"}

\* Most phrases in one message of the core assistant.
MaxPhrases == 1

KMessages == SetsUpTo(KWords, MaxPhrases)

\* Letters in ؀-ۿ, letters in A-Za-z, and tokens of normalize(), per phrase.
KAr(w) ==
    CASE w = "salam" -> 11 [] w = "daman" -> 4 [] w = "shahn" -> 3 [] w = "mawqi" -> 6
      [] w = "jeddah" -> 3 [] w = "jawwal" -> 4 [] w = "shahn_long" -> 16 [] OTHER -> 0

KEn(w) ==
    CASE w = "hello" -> 14 [] w = "boox" -> 4 [] w = "iphone" -> 6 [] w = "ultra" -> 14
      [] w = "reset" -> 5 [] w = "shipping" -> 8 [] w = "menu" -> 4 [] w = "return" -> 6
      [] OTHER -> 0

KTok(w) ==
    CASE w \in {"salam", "hello", "iphone"} -> 2 [] w = "ultra" -> 4 [] w = "shahn_long" -> 5
      [] OTHER -> 1

\* The count f[w] summed over the phrases w of the message.
RECURSIVE SumOver(_, _)
SumOver(f, m) ==
    IF m = {} THEN 0 ELSE LET w == CHOOSE x \in m : TRUE IN f[w] + SumOver(f, m \ {w})

\* detect_lang(user_text, prev_lang)
detect_lang(m, prev_lang) ==
    LET ar == SumOver([w \in KWords |-> KAr(w)], m)
        en == SumOver([w \in KWords |-> KEn(w)], m)
    IN  IF m = {} THEN prev_lang
        ELSE IF en >= 8 /\ en > ar * 2 THEN "en"
        ELSE IF ar > 0 THEN "ar"
        ELSE prev_lang

\* The intent detectors of core/assistant.py.  Each looks for its keywords as
\* substrings of the normalized text: "hi" is found in "shipping".
is_salam(m) == has_any(m, {"salam"})
is_greeting(m) == has_any(m, {"hello", "shipping"})
is_smalltalk(m) == has_any(m, {})
wants_menu(m) == has_any(m, {"menu"})
is_shipping_question(m) == has_any(m, {"shahn", "shipping", "shahn_long"})
is_location_question(m) == has_any(m, {"mawqi"})
is_warranty_question(m) == has_any(m, {"daman"})
is_return_question(m) == has_any(m, {"return"})
KNumbers == {"n1", "n2", "n9", "n27"}
is_number_choice(m) == \E w \in KNumbers : m = {w}
NumberOf(m) == IF m = {"n1"} THEN 1 ELSE IF m = {"n2"} THEN 2 ELSE IF m = {"n9"} THEN 9 ELSE 27
city_from_text(m) == IF "jeddah" \in m THEN "jeddah" ELSE "none"
country_outside_ksa_hint(m) == has_any(m, {"shahn_long"})
extract_place_short(m) ==
    LET words == SumOver([w \in KWords |-> KTok(w)], m) IN 1 <= words /\ words <= 3
is_reset(m) == m = {"reset"}

(***************************************************************************)
(* _PRODUCTS, the rows load_products read: six of the series Note Air,     *)
(* three of GO (the row of g2 with neither product_url nor category_link), *)
(* two of Tab (t2 without a product_url) and a Lenovo screen whose name    *)
(* ends in its size, 27.                                                   *)
(***************************************************************************)
KProducts == <<"a1", "a2", "a3", "a4", "a5", "a6", "g1", "g2", "g3", "t1", "t2", "s1">>

KBrand(id) == IF id = "s1" THEN "lenovo" ELSE "boox"
KCategory(id) == IF id = "s1" THEN "interactive_screens" ELSE "tablets_readers"
KSeries(id) ==
    CASE id \in {"a1", "a2", "a3", "a4", "a5", "a6"} -> "Note Air"
      [] id \in {"g1", "g2", "g3"} -> "GO"
      [] id \in {"t1", "t2"} -> "Tab"
      [] OTHER -> "ThinkVision"
\* A product_url is named by the product's id; a category_link by its category.
KUrl(id) == IF id \in {"t2", "g2"} THEN "" ELSE id
KRowCategoryLink(id) ==
    CASE id = "g2" -> ""
      [] id = "s1" -> "cat_screens"
      [] OTHER -> "cat_tablets"

\* The category_link load_products leaves on the product: SHOP_URL for a row without one.
KCategoryLink(id) == IF KRowCategoryLink(id) = "" THEN "shop" ELSE KRowCategoryLink(id)

\* _safe_url(p)
safe_url(id) ==
    IF KUrl(id) # "" THEN KUrl(id) ELSE IF KCategoryLink(id) # "" THEN KCategoryLink(id) ELSE "shop"

\* The filters and hints handle_message reads off the text.
brand_filter(m) == IF has_any(m, {"boox"}) THEN "boox" ELSE "none"
category_filter(m) == "none"
series_hint(m) == IF has_any(m, {"jawwal"}) THEN "GO" ELSE "none"
wants_browse(m) == has_any(m, {"boox"})

\* Tokens of a phrase (of two characters or more) found in the haystack of a product.
KTokenHits(id, w) ==
    CASE w = "boox" /\ KBrand(id) = "boox" -> 1
      [] w = "ultra" /\ id = "t1" -> 1
      [] w = "n27" /\ id = "s1" -> 1
      [] OTHER -> 0

RECURSIVE KTokenScore(_, _)
KTokenScore(id, m) ==
    IF m = {} THEN 0
    ELSE LET w == CHOOSE x \in m : TRUE IN KTokenHits(id, w) + KTokenScore(id, m \ {w})

\* The whole normalized query is a substring of the haystack.
KWholeMatch(id, m) == (m = {"boox"} /\ KBrand(id) = "boox") \/ (m = {"n27"} /\ id = "s1")

\* len(qn) < 2: the normalized query is empty or one character long.
KShortQuery(m) == m = {} \/ \E w \in {"n1", "n2", "n9"} : m = {w}

\* core.catalog.search_products(query, products, limit, brand_filter, category_filter, series_hint)
core_search_products(m, products, limit, brand, category, hint) ==
    IF KShortQuery(m) THEN <<>>
    ELSE LET kept == SelectSeq(products, LAMBDA id :
                        /\ ~(brand # "none" /\ KBrand(id) # "" /\ brand # KBrand(id))
                        /\ ~(category # "none" /\ KCategory(id) # "" /\ category # KCategory(id)))
             score(id) == (IF KWholeMatch(id, m) THEN 6 ELSE 0) + KTokenScore(id, m)
                          + (IF hint # "none" /\ KSeries(id) = hint THEN 2 ELSE 0)
             scored == SelectSeq([i \in 1..Len(kept) |-> [k |-> score(kept[i]), id |-> kept[i]]],
                                 LAMBDA x : x.k > 0)
         IN  Take(Ids(SortDesc(scored)), limit)

\* group_products(hits): the series in order of first appearance, each with its hits.
RECURSIVE GroupKeys(_, _)
GroupKeys(hits, seen) ==
    IF hits = <<>> THEN <<>>
    ELSE IF KSeries(Head(hits)) \in seen THEN GroupKeys(Tail(hits), seen)
    ELSE <<KSeries(Head(hits))>> \o GroupKeys(Tail(hits), seen \cup {KSeries(Head(hits))})

group_products(hits) ==
    LET keys == GroupKeys(hits, {})
    IN  [i \in 1..Len(keys) |->
            [g |-> keys[i], ids |-> SelectSeq(hits, LAMBDA id : KSeries(id) = keys[i])]]

\* sorted(groups.items(), key=lambda kv: len(kv[1]), reverse=True)[:12]
items_sorted(groups) ==
    Take(Ids(SortDesc([i \in 1..Len(groups) |-> [k |-> Len(groups[i].ids), id |-> groups[i]]])), 12)

(***************************************************************************)
(* Replies of the core assistant.  A reply is the template handle_message  *)
(* filled in (kind, lang), its wording ("literal" as written in the source, *)
(* or what the LLM made of it), the product or group it is about, the      *)
(* products it lists, its links and the figures it states.  Links are      *)
(* named: "shop", "warranty", "return", "jeddah_map", "riyadh_map", the    *)
(* category links, a product id for that product's product_url, "fake" for *)
(* https://shop.smart.sa/ar/fake and "evil" for a URL of another site.  A  *)
(* product id among the figures is that product's price.                   *)
(***************************************************************************)
KReply(kind, lang, subject, items, urls, nums) ==
    [kind |-> kind, lang |-> lang, wording |-> "literal", subject |-> subject,
     items |-> items, urls |-> urls, nums |-> nums]

\* The empty string.
KEmpty == [KReply("", "", "", <<>>, {}, {}) EXCEPT !.wording = ""]

\* _ALLOWED_LINKS and _ALLOWED_PREFIXES
KAllowedLinks ==
    {"shop", "return", "warranty", "jeddah_map", "riyadh_map", "cat_tablets", "cat_screens",
     "cat_computers", "cat_software"}
        \cup ({KUrl(KProducts[i]) : i \in 1..Len(KProducts)} \ {""})
        \cup {KCategoryLink(KProducts[i]) : i \in 1..Len(KProducts)}

KHasAllowedPrefix(u) ==
    u \in {"fake", "warranty", "cat_tablets", "cat_screens", "cat_computers",
           "cat_software", "jeddah_map", "riyadh_map"}
        \cup ({KUrl(KProducts[i]) : i \in 1..Len(KProducts)} \ {""})

\* strip_disallowed_links on a reply: every link that is not allowed is deleted; a
\* text that was nothing but links is the empty string once they are all deleted.
StripReplyLinks(r) ==
    LET kept == {u \in r.urls : u \in KAllowedLinks \/ KHasAllowedPrefix(u)}
    IN  IF r.kind = "url_only" /\ kept = {} THEN KEmpty ELSE [r EXCEPT !.urls = kept]

\* ChatState().  last_group_items holds the ids of each group of last_groups, in
\* the order of last_groups; history keeps the role of each entry.
NewChatState ==
    [history |-> <<>>, lang |-> "ar", last_intent |-> "none", last_bot_reply |-> KEmpty,
     awaiting_location_city |-> FALSE, awaiting_shipping_place |-> FALSE,
     shipping_scope |-> "none", view_mode |-> "none", last_groups |-> <<>>,
     last_group_items |-> <<>>, last_items |-> <<>>]

\* ChatState.reset(), preceded by the variant that leaves the language alone.
reset_keeps_lang(st) ==
    [st EXCEPT !.history = <<>>, !.last_intent = "none", !.last_bot_reply = KEmpty,
               !.awaiting_location_city = FALSE, !.awaiting_shipping_place = FALSE,
               !.shipping_scope = "none", !.view_mode = "none", !.last_groups = <<>>,
               !.last_group_items = <<>>, !.last_items = <<>>]

reset(st) ==
    [st EXCEPT !.history = <<>>, !.last_intent = "none", !.last_bot_reply = KEmpty,
               !.lang = "ar",
               !.awaiting_location_city = FALSE, !.awaiting_shipping_place = FALSE,
               !.shipping_scope = "none", !.view_mode = "none", !.last_groups = <<>>,
               !.last_group_items = <<>>, !.last_items = <<>>]

\* ChatState.push(role, content); has_content is the truth value of content.
push(st, role, has_content) ==
    IF ~has_content THEN st ELSE [st EXCEPT !.history = Append(st.history, role)]

\* A handler's result: what it returns ("picked", "factual": KEmpty for None) and
\* the state it leaves.
KResult(reply, st) == [reply |-> reply, st |-> st]

greeting_base(m, lang) ==
    IF is_salam(m) /\ lang = "ar" THEN KReply("salam_reply", "ar", "", <<>>, {}, {})
    ELSE IF lang = "ar" THEN KReply("hala", "ar", "", <<>>, {}, {})
    ELSE IF is_salam(m) THEN KReply("peace", "en", "", <<>>, {}, {})
    ELSE KReply("hi", "en", "", <<>>, {}, {})

render_items(items, lang, subject) ==
    KReply("items", lang, subject, Take(items, 12), {}, SeqRange(Take(items, 12)))

render_groups(sorted, lang) ==
    KReply("groups", lang, "", <<>>, {}, {})

detail_card(kind, id, lang) == KReply(kind, lang, id, <<>>, {safe_url(id)}, {id})

\* _catalog_flow(text, state)
catalog_flow(m, st) ==
    IF ~is_number_choice(m) THEN KResult(KEmpty, st)
    ELSE LET n == NumberOf(m)
         IN  IF st.view_mode = "groups"
             THEN IF n < 1 \/ n > Len(st.last_groups) THEN KResult(KEmpty, st)
                  ELSE LET group_name == st.last_groups[n]
                           ids == st.last_group_items[n]
                           items == SelectSeq(KProducts, LAMBDA id : id \in SeqRange(ids))
                       IN  KResult(render_items(items, st.lang, group_name),
                                   [st EXCEPT !.view_mode = "items", !.last_items = Take(items, 12)])
             ELSE IF st.view_mode = "items"
             THEN IF n < 1 \/ n > Len(st.last_items) THEN KResult(KEmpty, st)
                  ELSE KResult(detail_card("detail", st.last_items[n], st.lang), st)
             ELSE KResult(KEmpty, st)

\* _factual_location(text, state)
factual_location(m, st) ==
    LET city == city_from_text(m)
        st1 == IF st.awaiting_location_city /\ city # "none"
               THEN [st EXCEPT !.awaiting_location_city = FALSE] ELSE st
    IN  IF city = "jeddah" THEN KResult(KReply("location", "ar", "jeddah", <<>>, {"jeddah_map"}, {}), st1)
        ELSE IF city = "riyadh" THEN KResult(KReply("location", "ar", "riyadh", <<>>, {"riyadh_map"}, {}), st1)
        ELSE KResult(KReply("location_ask", "ar", "", <<>>, {}, {}),
                     [st1 EXCEPT !.awaiting_location_city = TRUE])

\* _factual_shipping(text, state)
factual_shipping(m, st) ==
    LET place == IF st.awaiting_shipping_place THEN TRUE ELSE extract_place_short(m)
        st1 == [st EXCEPT !.awaiting_shipping_place = FALSE]
        outside == country_outside_ksa_hint(m) \/ st.shipping_scope = "outside"
    IN  IF place
        THEN KResult(KReply(IF outside THEN "shipping_outside" ELSE "shipping_ksa", st.lang, "",
                            <<>>, {"shop"}, {}), st1)
        ELSE KResult(KReply("shipping_ask", st.lang, "", <<>>, {}, {}),
                     [st1 EXCEPT !.awaiting_shipping_place = TRUE,
                                 !.shipping_scope = IF outside THEN "outside" ELSE "ksa"])

factual_warranty(lang) == KReply("warranty", lang, "", <<>>, {"warranty"}, {"2", "30"})
factual_return(lang) == KReply("return", lang, "", <<>>, {"return"}, {"7", "20", "30"})
factual_menu(lang) ==
    KReply("menu", lang, "", <<>>, {"cat_tablets", "cat_screens", "cat_computers", "cat_software"},
           {"1", "2", "3", "4"})

\* GroupsMin: a browse of more than this many hits is shown as groups.
GroupsMin == 10

\* 3) product search/advisor
product_search(m, st) ==
    LET hits == core_search_products(m, KProducts, 24, brand_filter(m), category_filter(m),
                                     series_hint(m))
        sorted == items_sorted(group_products(hits))
    IN  IF hits # <<>> /\ wants_browse(m)
        THEN IF Len(hits) > GroupsMin /\ Len(group_products(hits)) > 1
             THEN KResult(render_groups(sorted, st.lang),
                          [st EXCEPT !.view_mode = "groups",
                                     !.last_groups = [i \in 1..Len(sorted) |-> sorted[i].g],
                                     !.last_group_items = [i \in 1..Len(sorted) |-> sorted[i].ids]])
             ELSE KResult(render_items(hits, st.lang, ""),
                          [st EXCEPT !.view_mode = "items", !.last_items = Take(hits, 12)])
        ELSE IF hits # <<>>
        THEN KResult(detail_card("found", hits[1], st.lang), [st EXCEPT !.view_mode = "none"])
        ELSE KResult(KReply("not_found", st.lang, "", <<>>, {"shop"}, {}),
                     [st EXCEPT !.view_mode = "none"])

\* 2) deterministic intents, then 3) when none applies; preceded by the variant
\* that does not cancel the catalog mode.
deterministic_reply_keeps_view(m, st) ==
    LET intent(name, r) ==
            KResult(r.reply, [r.st EXCEPT !.last_intent = name])
    IN  IF is_location_question(m) \/ st.awaiting_location_city
        THEN intent("location", factual_location(m, st))
        ELSE IF is_shipping_question(m) \/ st.awaiting_shipping_place
        THEN intent("shipping", factual_shipping(m, st))
        ELSE IF is_warranty_question(m) THEN intent("warranty", KResult(factual_warranty(st.lang), st))
        ELSE IF is_return_question(m) THEN intent("return", KResult(factual_return(st.lang), st))
        ELSE IF wants_menu(m) THEN intent("menu", KResult(factual_menu(st.lang), st))
        ELSE product_search(m, st)

deterministic_reply(m, st) ==
    LET intent(name, r) ==
            KResult(r.reply, [r.st EXCEPT !.last_intent = name, !.view_mode = "none"])
    IN  IF is_location_question(m) \/ st.awaiting_location_city
        THEN intent("location", factual_location(m, st))
        ELSE IF is_shipping_question(m) \/ st.awaiting_shipping_place
        THEN intent("shipping", factual_shipping(m, st))
        ELSE IF is_warranty_question(m) THEN intent("warranty", KResult(factual_warranty(st.lang), st))
        ELSE IF is_return_question(m) THEN intent("return", KResult(factual_return(st.lang), st))
        ELSE IF wants_menu(m) THEN intent("menu", KResult(factual_menu(st.lang), st))
        ELSE product_search(m, st)

(***************************************************************************)
(* ai_rewrite.  The completion call raises, or answers with a text that is *)
(* read relative to the deterministic reply it was asked to rewrite:       *)
(*   "empty"     no content             "none"     the word None           *)
(*   "verbatim"  the reply unchanged    "rephrased" other words, same facts *)
(*   "invented"  other words, with a figure and the link                   *)
(*               https://shop.smart.sa/ar/fake added                       *)
(*   "evil"      other words, with a link to another site added            *)
(*   "repeat"    the text of last_bot_reply                                *)
(*   "url_only"  nothing but a link to another site                        *)
(***************************************************************************)
KRaises == {"rate_limit", "auth", "timeout", "service"}
KTexts == {"empty", "none", "verbatim", "rephrased", "invented", "evil", "repeat", "url_only"}

LlmContent(o, base, last) ==
    CASE o = "verbatim" -> base
      [] o = "rephrased" -> [base EXCEPT !.wording = "rephrased"]
      [] o = "invented" -> [base EXCEPT !.wording = "rephrased", !.urls = @ \cup {"fake"},
                                        !.nums = @ \cup {"invented"}]
      [] o = "evil" -> [base EXCEPT !.wording = "rephrased", !.urls = @ \cup {"evil"}]
      [] o = "repeat" -> last
      [] o = "none" -> [KEmpty EXCEPT !.kind = "None"]
      [] o = "url_only" -> [KEmpty EXCEPT !.kind = "url_only", !.urls = {"evil"}]
      [] OTHER -> KEmpty

\* _clean_output(text)
clean_output(text) == IF text = KEmpty \/ text.kind = "None" THEN KEmpty ELSE text

\* The turn in progress: where handle_message stands ("idle" between turns, "call1"
\* and "call2" at the completion calls of ai_rewrite, "done" once it has returned,
\* "raised" once an exception has left it), the message, state.lang before the
\* turn, the branch taken, the deterministic reply, out1 and out2 of ai_rewrite
\* (empty until the call is made) and the reply returned.
KTurn(step, m, prev_lang, branch, base, out1, reply, calls) ==
    [step |-> step, msg |-> m, prev_lang |-> prev_lang, branch |-> branch, base |-> base,
     out1 |-> out1, out2 |-> KEmpty, reply |-> reply, calls |-> calls]

KNoTurn == KTurn("idle", {}, "none", "", KEmpty, KEmpty, KEmpty, 0)

\* Most entries of state.history.
MaxHistory == 6

CoreIdle ==
    /\ state = NewChatState
    /\ kTurn = KNoTurn

CoreInit ==
    /\ state = NewChatState
    /\ kTurn = KNoTurn

\* handle_message(user_text, state) up to its return or to the call of ai_rewrite.
CoreReceive(m) ==
    LET st0 == [state EXCEPT !.lang = detect_lang(m, state.lang)]
        c == catalog_flow(m, st0)
        d == deterministic_reply(m, st0)
        calling(branch, base) == KTurn("call1", m, state.lang, branch, base, KEmpty, KEmpty, 0)
    IN  /\ kTurn.step = "idle"
        /\ m = {} \/ is_reset(m) \/ Len(state.history) + 2 <= MaxHistory
        /\ IF m = {}
           THEN /\ kTurn' = KTurn("done", m, state.lang, "empty", KEmpty, KEmpty, KEmpty, 0)
                /\ state' = state
           ELSE IF is_reset(m)
           THEN /\ kTurn' = KTurn("done", m, state.lang, "reset", KEmpty, KEmpty,
                                  KReply("reset_done", "ar", "", <<>>, {}, {}), 0)
                /\ state' = reset(state)
           ELSE IF is_salam(m) \/ is_greeting(m) \/ is_smalltalk(m)
           THEN /\ kTurn' = calling("greeting", greeting_base(m, st0.lang))
                /\ state' = st0
           ELSE IF c.reply # KEmpty
           THEN /\ kTurn' = calling("picked", c.reply)
                /\ state' = c.st
           ELSE /\ kTurn' = calling("main", d.reply)
                /\ state' = push(d.st, "user", m # {})
        /\ UNCHANGED <<sanVars, claudeVars, loadVars, flowVars, reloadVars, pTurn>>

\* The rest of handle_message once ai_rewrite has returned rewritten, preceded by
\* the variant that returns the text without strip_disallowed_links.
AfterRewrite_unstripped(t, st, rewritten) ==
    LET out == IF rewritten # KEmpty THEN rewritten ELSE t.base
        st1 == IF t.branch = "main" THEN st ELSE push(st, "user", t.msg # {})
        st2 == [push(st1, "assistant", out # KEmpty) EXCEPT !.last_bot_reply = out]
    IN  IF t.branch = "greeting" THEN [st2 EXCEPT !.view_mode = "none"] ELSE st2

AfterRewrite(t, st, rewritten) ==
    LET stripped == StripReplyLinks(rewritten)
        out == IF stripped # KEmpty THEN stripped ELSE t.base
        st1 == IF t.branch = "main" THEN st ELSE push(st, "user", t.msg # {})
        st2 == [push(st1, "assistant", out # KEmpty) EXCEPT !.last_bot_reply = out]
    IN  IF t.branch = "greeting" THEN [st2 EXCEPT !.view_mode = "none"] ELSE st2

\* One completion call of ai_rewrite: it raises, and nothing catches it, or it
\* answers, and ai_rewrite asks again when the answer repeats last_bot_reply.
CoreLlm(o) ==
    LET t == kTurn
        last == state.last_bot_reply
        out == clean_output(LlmContent(o, t.base, last))
        finish(rewritten, t2) ==
            /\ state' = AfterRewrite(t, state, rewritten)
            /\ kTurn' = [t2 EXCEPT !.step = "done", !.calls = @ + 1,
                                   !.reply = AfterRewrite(t, state, rewritten).last_bot_reply]
    IN  /\ t.step \in {"call1", "call2"}
        /\ IF o \in KRaises
           THEN /\ kTurn' = [t EXCEPT !.step = "raised", !.calls = @ + 1]
                /\ state' = state
           ELSE IF t.step = "call1"
           THEN IF out # KEmpty /\ last # KEmpty /\ out = last
                THEN /\ kTurn' = [t EXCEPT !.step = "call2", !.calls = @ + 1, !.out1 = out]
                     /\ state' = state
                ELSE finish(IF out # KEmpty THEN out ELSE t.base, [t EXCEPT !.out1 = out])
           ELSE finish(IF out # KEmpty THEN out ELSE t.out1, [t EXCEPT !.out2 = out])
        /\ UNCHANGED <<sanVars, claudeVars, loadVars, flowVars, reloadVars, pTurn>>

\* The caller has the reply, or the exception, and waits for the next message.
CoreNextMessage ==
    /\ kTurn.step \in {"done", "raised"}
    /\ kTurn' = KNoTurn
    /\ UNCHANGED <<state, sanVars, claudeVars, loadVars, flowVars, reloadVars, pTurn>>

CoreNext ==
    \/ \E m \in KMessages : CoreReceive(m)
    \/ \E o \in KRaises \cup KTexts : CoreLlm(o)
    \/ CoreNextMessage

(***************************************************************************)
(* Claims on the core assistant, read off the turn record once             *)
(* handle_message has returned (step "done") or an exception has left it   *)
(* (step "raised").                                                        *)
(***************************************************************************)
CoreReturned == kTurn.step = "done"

\* C2: core/assistant.handle_message always returns a reply string: whatever the
\* user text, the session state and the outcome of the completion call made by
\* ai_rewrite, no exception leaves handle_message.
C2_AlwaysReturns == kTurn.step # "raised"

\* C5: the reply shown after the tone rewrite holds no link and no figure that the
\* deterministic reply it rewrites does not hold.
C5_NoFactDrift ==
    CoreReturned /\ kTurn.branch \in {"greeting", "picked", "main"}
        => /\ kTurn.reply.urls \subseteq kTurn.base.urls
           /\ kTurn.reply.nums \subseteq kTurn.base.nums

\* Tokens of the message written in the script that is not the one of lang.
ForeignTokens(m, lang) ==
    LET Foreign(w) == IF (lang = "ar" /\ KEn(w) > 0) \/ (lang = "en" /\ KAr(w) > 0)
                      THEN KTok(w) ELSE 0
    IN  SumOver([w \in KWords |-> Foreign(w)], m)

\* C7: once an earlier turn has set the session language to L, a message with fewer
\* than three tokens of the other script leaves state.lang at L after the turn.
C7_LanguageStability ==
    /\ CoreReturned
    /\ kTurn.branch \in {"greeting", "picked", "main"}
    /\ Len(state.history) > 2
    /\ ForeignTokens(kTurn.msg, kTurn.prev_lang) < 3
    => state.lang = kTurn.prev_lang

\* The products of the n-th group displayed, as _catalog_flow lists them.
GroupMembers(st, n) ==
    Take(SelectSeq(KProducts, LAMBDA id : id \in SeqRange(st.last_group_items[n])), 12)

\* A number picked from the groups lists the products of that group and moves the
\* cursor to items; a number picked from the items gives the card of that product
\* with its own link.
BrowseSelectsDisplayed ==
    CoreReturned /\ kTurn.branch = "picked"
        => LET n == NumberOf(kTurn.msg)
           IN  \/ /\ kTurn.base.kind = "items"
                  /\ state.view_mode = "items"
                  /\ n \in 1..Len(state.last_groups)
                  /\ kTurn.base.items = GroupMembers(state, n)
                  /\ state.last_items = kTurn.base.items
               \/ /\ kTurn.base.kind = "detail"
                  /\ n \in 1..Len(state.last_items)
                  /\ kTurn.base.subject = state.last_items[n]
                  /\ kTurn.base.urls = {safe_url(state.last_items[n])}

\* C8: in the browse sequence a valid number at groups lists the products of the
\* group picked and moves to items, a valid number at items returns the card of the
\* product picked with its own link, and that card ends the browse: view_mode is
\* "none" afterwards, so the next bare number selects nothing.
C8_BrowseSequence ==
    /\ BrowseSelectsDisplayed
    /\ CoreReturned /\ kTurn.branch = "picked" /\ kTurn.base.kind = "detail"
           => state.view_mode = "none"

\* The message names a product the catalog does not hold.
NamesUnknownProduct(m) == m # {} /\ m \subseteq {"iphone", "ultra"}

\* The turn went to the product search (3) of handle_message.
SearchTurn ==
    /\ kTurn.step \in {"call1", "call2", "done"}
    /\ kTurn.branch = "main"
    /\ kTurn.base.kind \in {"groups", "items", "found", "not_found"}

\* C9: a product query that names a product the catalog does not hold is answered
\* with the not-found text, whose only link is the store or a category link, and
\* no product or price of the catalog is shown as the match.
C9_UnknownProduct ==
    SearchTurn /\ NamesUnknownProduct(kTurn.msg)
        => /\ kTurn.base.kind = "not_found"
           /\ kTurn.base.urls \subseteq {"shop", "cat_tablets", "cat_screens", "cat_computers",
                                         "cat_software"}
           /\ kTurn.base.nums = {}
           /\ CoreReturned
                  => /\ kTurn.reply.urls \subseteq {"shop", "cat_tablets", "cat_screens",
                                                    "cat_computers", "cat_software"}
                     /\ kTurn.reply.nums = {}

\* The official static links of core/config.py.
KStaticLinks ==
    {"shop", "return", "warranty", "jeddah_map", "riyadh_map", "cat_tablets", "cat_screens",
     "cat_computers", "cat_software"}

\* The products a deterministic reply shows: the one of a card, those of a listing.
Surfaced(base) ==
    SeqRange(base.items) \cup (IF base.kind \in {"detail", "found"} THEN {base.subject} ELSE {})

\* C11: every link of a reply returned by handle_message is an official static link
\* or the product_url or category_link of a product shown in that turn, whatever
\* the LLM answered.
C11_AllowedLinkSet ==
    CoreReturned =>
        kTurn.reply.urls \subseteq
            KStaticLinks \cup {KUrl(id) : id \in Surfaced(kTurn.base)}
                         \cup {KCategoryLink(id) : id \in Surfaced(kTurn.base)}

\* The text is what the URL sanitizer of its handler leaves of it.
CoreSanitized(r) == StripReplyLinks(r) = r

ClaudeSanitized(r) == \A u \in r.urls : u \in OfficialLinks /\ u # "store"

C13_Reset ==
    /\ (CoreReturned /\ kTurn.branch = "reset")
           => /\ state = NewChatState
              /\ kTurn.reply = KReply("reset_done", "ar", "", <<>>, {}, {})
              /\ kTurn.calls = 0
    /\ reset(state) = NewChatState
    /\ reset(reset(state)) = reset(state)

\* A reset of a session that an English turn had changed.
C13_Witness ==
    /\ CoreReturned
    /\ kTurn.branch = "reset"
    /\ kTurn.prev_lang = "en"
    /\ state = NewChatState

\* handle_chat_message answers an empty text with its canned prompt, without a
\* call of call_groq_api.
ClaudeEmptyPrompt ==
    (TurnReturned /\ cTurn.msg = {})
        => cTurn.reply.kind = "empty_prompt" /\ cTurn.outs = <<>>

\* C14: a user text that is empty after trimming is answered at once with a canned
\* prompt, a reply that is not empty, and without a completion call.
C14_EmptyInput ==
    /\ ClaudeEmptyPrompt
    /\ (CoreReturned /\ kTurn.branch = "empty")
           => kTurn.reply # KEmpty /\ kTurn.calls = 0

\* A message of a product topic that none of sections 2 to 6 of the handler answers.
ProductSeeming(m) ==
    /\ is_boox_query(m) \/ is_reading_device_intent(m) \/ is_monitor_or_screen_query(m)
           \/ is_gaming_query(m) \/ is_programs_query(m)
    /\ ~is_joke_request(m) /\ ~is_another_joke_request(m) /\ ~is_probably_just_greeting(m)
    /\ detect_explicit_language_switch(m) = "none" /\ ~is_contact_query(m)
    /\ ~is_shipping_query(m) /\ ~is_warranty_query(m) /\ ~is_installment_query(m)
    /\ ~battery_facts_apply(m) /\ ~is_lifespan_query(m)

\* The fallback of the last except clause: the category link of the session's mode.
IsCategoryFallback(r, mode) ==
    /\ r.kind \in {"safe_fallback", "unexpected_fallback"}
    /\ r.urls = {fallback_product_links(mode)}
    /\ r.items = <<>>

\* With no catalog, a turn that reaches one of the CSV-only sections leaves the try
\* block with CatalogLoadError and is answered with the category fallback, without a
\* call of call_groq_api.
CsvSectionsFallBack ==
    (TurnReturned /\ cTurn.exc = "CatalogLoadError")
        => /\ cCatalog = "missing"
           /\ IsCategoryFallback(cTurn.reply, cSess.mode)
           /\ cTurn.outs = <<>>

\* C15: when the catalog cannot be loaded every turn still returns a reply, and a
\* product query (reading, display or software mode) is answered with the safe
\* fallback carrying the category link, without a call of the LLM.
C15_CatalogUnavailable ==
    (cCatalog = "missing" /\ TurnReturned /\ ProductSeeming(cTurn.msg))
        => /\ cSess.mode \in {"reading", "display", "software"}
           /\ IsCategoryFallback(cTurn.reply, cSess.mode)
           /\ cTurn.outs = <<>>

\* The text call_groq_api returned in this turn.
GroqText == cTurn.outs[Len(cTurn.outs)]

GroqAnswered ==
    /\ cTurn.exc = "none" /\ cTurn.outs # <<>>
    /\ GroqText \in LLMTexts

\* A deny-listed name left in the text after scrub_unknown_urls and
\* scrub_placeholders makes the handler return safe_fallback_message for the topic,
\* and a text with such a name is the last call of the turn.
ScrubbedMarkerDiscarded ==
    /\ (GroqAnswered /\ BodyHasMarker(GroqText))
           => /\ cTurn.reply.kind = "safe_fallback"
              /\ cTurn.reply.urls \in {{"tablets"}, {"interactive"}, {"software"}}
    /\ \A i \in 1..Len(cTurn.outs) : ResponseHasMarker(cTurn.outs[i]) => i = Len(cTurn.outs)

\* C16: whenever the text the LLM returned contains a deny-listed product name, the
\* whole text is discarded and the safe category fallback is returned in its place;
\* the LLM is not called again in that turn.
C16_HallucinationMarker ==
    /\ (GroqAnswered /\ ResponseHasMarker(GroqText))
           => /\ cTurn.reply.kind = "safe_fallback"
              /\ cTurn.reply.urls \in {{"tablets"}, {"interactive"}, {"software"}}
    /\ \A i \in 1..Len(cTurn.outs) : ResponseHasMarker(cTurn.outs[i]) => i = Len(cTurn.outs)

\* The fact replies of the intents a message carries.
FaqKinds(m) ==
    (IF is_shipping_question(m) THEN {"shipping_ksa", "shipping_outside", "shipping_ask"} ELSE {})
        \cup (IF is_location_question(m) THEN {"location", "location_ask"} ELSE {})
        \cup (IF is_warranty_question(m) THEN {"warranty"} ELSE {})
        \cup (IF is_return_question(m) THEN {"return"} ELSE {})
        \cup (IF wants_menu(m) THEN {"menu"} ELSE {})

\* handle_message starts on a message with a FAQ intent while a numbered list is
\* on display.
FaqWhileBrowsing ==
    /\ state.view_mode \in {"groups", "items"}
    /\ kTurn.step = "idle" /\ kTurn'.step = "call1"
    /\ ~is_number_choice(kTurn'.msg)
    /\ FaqKinds(kTurn'.msg) # {}

\* A FAQ message that holds no greeting keyword leaves the numbered list in the
\* turn it is sent: the deterministic reply is the text of one of its intents and
\* view_mode is "none" again.
FaqPreemptsUnlessGreeting ==
    [][(FaqWhileBrowsing /\ ~is_salam(kTurn'.msg) /\ ~is_greeting(kTurn'.msg)
            /\ ~is_smalltalk(kTurn'.msg))
          => /\ kTurn'.base.kind \in FaqKinds(kTurn'.msg)
             /\ state'.view_mode = "none"]_vars

\* C17: from every browse state (groups or items) a message that is not a number
\* and has a shipping, location, warranty, return or menu intent is answered in the
\* same turn with the fact text of that intent, never with a menu prompt.
C17_FaqPreemptsBrowsing ==
    [][FaqWhileBrowsing => kTurn'.base.kind \in FaqKinds(kTurn'.msg)]_vars

\* The greeting branch of handle_message comes to its end: ai_rewrite has answered
\* and the reply is returned, or its completion call has raised.
GreetingTurnEnds ==
    /\ kTurn.branch = "greeting" /\ kTurn.step \in {"call1", "call2"}
    /\ kTurn'.step \in {"done", "raised"}

\* A greeting turn that returns its reply leaves view_mode at "none", so that
\* _catalog_flow picks nothing for the number sent next.
GreetingReturnedCancels ==
    [][(GreetingTurnEnds /\ kTurn'.step = "done")
          => /\ state'.view_mode = "none"
             /\ \A w \in KNumbers : catalog_flow({w}, state').reply = KEmpty]_vars

\* C18: after any greeting or smalltalk turn, whatever list was on display before
\* it, the session is out of catalog browse mode, so that a bare number sent next
\* is not taken as a choice from the list.
C18_GreetingCancelsBrowsing ==
    [][GreetingTurnEnds
          => /\ state'.view_mode = "none"
             /\ \A w \in KNumbers : catalog_flow({w}, state').reply = KEmpty]_vars

\* handle_message starts on a bare number while no numbered list is on display.
NumberOutsideBrowse ==
    /\ kTurn.step = "idle" /\ kTurn'.step = "call1"
    /\ state.view_mode = "none"
    /\ is_number_choice(kTurn'.msg)

\* With no list on display _catalog_flow picks nothing for a number: the turn does
\* not take the branch of the number selection and shows no list of a group.
NumberNotPickedOutsideBrowse ==
    [][NumberOutsideBrowse
          => /\ kTurn'.branch # "picked"
             /\ kTurn'.base.kind \notin {"items", "groups", "detail"}
             /\ state'.view_mode = "none"]_vars

\* C19: a message of one to three digits is a menu selection only when a list of
\* groups or of items is on display; with view_mode "none" a bare number selects no
\* group and no product, and no product detail is returned for it.
C19_NumberOnlyMidBrowse ==
    [][NumberOutsideBrowse
          => /\ kTurn'.branch # "picked"
             /\ kTurn'.base.kind \notin {"items", "groups", "detail", "found"}
             /\ state'.view_mode = "none"]_vars

\* The greeting replies of handle_chat_message, and the messages made of greeting
\* phrases only.
GreetingKinds == {"salam_intro", "intro", "salam_again", "hello_again"}

ClaudeGreetingOnly(m) == m # {} /\ m \subseteq {"salam", "salam_full", "hi"}

CoreGreetingOnly(m) == m # {} /\ m \subseteq {"salam", "hello"}

\* A message made of short greeting phrases only takes the greeting branch, in
\* handle_chat_message and in handle_message alike.
GreetingOnlyGreeted ==
    /\ (TurnReturned /\ cTurn.msg # {} /\ cTurn.msg \subseteq {"salam", "hi"})
           => cTurn.reply.kind \in GreetingKinds
    /\ (kTurn.step # "idle" /\ CoreGreetingOnly(kTurn.msg)) => kTurn.branch = "greeting"

\* C20: a message is answered with the greeting reply only when the whole of it is
\* a greeting phrase; a greeting word together with a question (FAQ, shipping or
\* product keyword) does not get the greeting reply.
C20_GreetingOnly ==
    /\ (TurnReturned /\ cTurn.reply.kind \in GreetingKinds) => ClaudeGreetingOnly(cTurn.msg)
    /\ kTurn.branch = "greeting" => CoreGreetingOnly(kTurn.msg)

\* handle_message starts on a message and goes on to the deterministic intents.
MainTurnStarts == kTurn.step = "idle" /\ kTurn'.step = "call1" /\ kTurn'.branch = "main"

NothingPending == ~state.awaiting_location_city /\ ~state.awaiting_shipping_place

\* A location question that names no branch is answered with the question which
\* branch is meant and sets awaiting_location_city; once the message names the
\* city, in the question or in the turn after it, the map of the branch is
\* returned and the flag is down.
LocationClarifyThenAnswer ==
    [][MainTurnStarts =>
          /\ (NothingPending /\ is_location_question(kTurn'.msg)
                  /\ city_from_text(kTurn'.msg) = "none")
                 => kTurn'.base.kind = "location_ask" /\ state'.awaiting_location_city
          /\ ((is_location_question(kTurn'.msg) \/ state.awaiting_location_city)
                  /\ city_from_text(kTurn'.msg) # "none")
                 => kTurn'.base.kind = "location" /\ ~state'.awaiting_location_city]_vars

\* A message sent while awaiting_shipping_place is up is taken as the place: the
\* shipping answer is returned and the flag is down.
ShippingAnswersPending ==
    [][(MainTurnStarts /\ state.awaiting_shipping_place /\ ~state.awaiting_location_city
            /\ ~is_location_question(kTurn'.msg))
          => /\ kTurn'.base.kind \in {"shipping_ksa", "shipping_outside"}
             /\ ~state'.awaiting_shipping_place]_vars

\* C21: a shipping or location question that names no city or destination, sent
\* while no follow-up is pending, is answered with the clarifying question and sets
\* the pending flag; once the destination is given, the answer for it is returned
\* and the flag is cleared.
C21_ClarifyThenAnswer ==
    [][(MainTurnStarts /\ NothingPending /\ city_from_text(kTurn'.msg) = "none"
            /\ (is_location_question(kTurn'.msg) \/ is_shipping_question(kTurn'.msg)))
          => /\ kTurn'.base.kind \in {"location_ask", "shipping_ask"}
             /\ state'.awaiting_location_city \/ state'.awaiting_shipping_place]_vars

\* C22: in every state of a session at most one follow-up question is pending:
\* awaiting_location_city and awaiting_shipping_place are never both true.
C22_OneOutstandingFollowUp ==
    ~(state.awaiting_location_city /\ state.awaiting_shipping_place)

\* The language a message asks for by an explicit phrase: "none" without such a
\* phrase, "both" when it holds a phrase of either list.
RequestedLanguage(m) ==
    IF "in_english" \in m /\ "bil_arabi" \in m THEN "both"
    ELSE IF "in_english" \in m THEN "en"
    ELSE IF "bil_arabi" \in m THEN "ar"
    ELSE "none"

\* A turn answered by section 4 of the handler, the language switch.
SwitchTurn == TurnReturned /\ cTurn.reply.kind = "switched"

\* In the turn of an explicit request the language stable_language returns and
\* the language of the confirmation are the one asked for, whatever the script of
\* the rest of the message.
SwitchTurnLanguage ==
    (SwitchTurn /\ RequestedLanguage(cTurn.msg) \in {"ar", "en"})
        => /\ cTurn.lang = RequestedLanguage(cTurn.msg)
           /\ cTurn.reply.lang = RequestedLanguage(cTurn.msg)

\* C23: a message with an explicit language-switch phrase sets the language of its
\* turn to the one asked for, and the turns after it keep that language until
\* another explicit request: a message without such a phrase, sent next, is
\* answered in the language switched to.
C23_ExplicitLanguageSwitch ==
    (SwitchTurn /\ RequestedLanguage(cTurn.msg) \in {"ar", "en"})
        => /\ cTurn.reply.lang = RequestedLanguage(cTurn.msg)
           /\ \A m \in CMessages :
                  (m # {} /\ RequestedLanguage(m) = "none")
                      => stable_language(m, cHist) = RequestedLanguage(cTurn.msg)

\* What the last completion call of ai_rewrite returned, after _clean_output.
LastRewrite == IF kTurn.calls >= 2 THEN kTurn.out2 ELSE kTurn.out1

\* The rewrite is unusable: empty, the word None, or empty once its links are
\* stripped.
RewriteUnusable == StripReplyLinks(LastRewrite) = KEmpty

\* When the only completion call of the turn gives an unusable rewrite, the reply
\* returned is the deterministic reply.
FirstRewriteFallsBack ==
    (CoreReturned /\ kTurn.calls = 1 /\ RewriteUnusable) => kTurn.reply = kTurn.base

\* C24: whenever the rewrite of the LLM is empty, is the word none, or is empty
\* after sanitization, the reply returned is the deterministic reply unchanged, on
\* every path of ai_rewrite, the second call after a repeated answer included.
C24_RewriteFallback ==
    (CoreReturned /\ kTurn.calls >= 1 /\ RewriteUnusable) => kTurn.reply = kTurn.base

\* The widest window of prior turns a request builder of the program takes:
\* history[-10:] of ai_answer (ai_rewrite takes history[-6:]).
HistoryWindow == 10

\* The request of call_groq_api carries every entry of the history the caller
\* keeps, however long it is.
GroqRequestCarriesWholeHistory ==
    cTurn.exc = "calling" => cTurn.sent = cHist.len

\* C25: the number of prior-turn messages in a request to the LLM is bounded by a
\* constant that does not depend on the length of the session: no request carries
\* more history entries than the window.
C25_BoundedHistoryWindow == cTurn.sent <= HistoryWindow

\* The categories whose classifier the message matches.
CategoriesOf(m) ==
    (IF is_reading_device_intent(m) \/ is_boox_query(m) THEN {"reading"} ELSE {})
        \cup (IF is_monitor_or_screen_query(m) \/ is_gaming_query(m) THEN {"display"} ELSE {})
        \cup (IF is_programs_query(m) THEN {"software"} ELSE {})

\* The replies of sections 1 to 6 of the handler and of the empty input.
EarlyKinds ==
    {"joke", "switched", "contact", "shipping_facts", "warranty_facts", "installment_facts",
     "battery_facts", "lifespan_facts", "empty_prompt"} \cup GreetingKinds

\* C26: the mode stored for the session (reading, display, software) persists
\* across turns and changes only in a turn whose message matches a category
\* classifier, to a category the message matches; joke, greeting, language-switch,
\* contact and FAQ turns and messages with no category keyword leave it as it was.
C26_ModeLock ==
    [][/\ cSess'.mode # cSess.mode
            => /\ cSess'.mode \in CategoriesOf(cTurn'.msg)
               /\ cTurn'.reply.kind \notin EarlyKinds
       /\ cTurn'.reply.kind \in EarlyKinds => cSess'.mode = cSess.mode]_vars

C26_Witness ==
    /\ TurnReturned
    /\ cSess.mode = "display"
    /\ cTurn.reply.kind = "warranty_facts"
    /\ CategoriesOf(cTurn.msg) = {}

\* The reply returned is the card of one product, in the wording of the handler
\* or of the LLM.
CoreCardShown == CoreReturned /\ kTurn.reply.kind = "detail"

\* C27: in no reply is the bare store homepage presented as the link of a product:
\* the card of a product that has no product_url of its own carries a category
\* link, and a homepage URL in the answer of the LLM has been replaced by the
\* fallback category link.
C27_NoHomepageProductLink ==
    /\ CoreCardShown => "shop" \notin kTurn.reply.urls
    /\ (TurnReturned /\ cTurn.exc = "none" /\ cTurn.reply.kind = "llm")
            => "store" \notin cTurn.reply.urls

\* The message matches the another/more keywords and is not itself a joke request.
AnotherOnly(m) == is_another_joke_request(m) /\ ~is_joke_request(m)

\* C28: a message that matches only the another/more keywords is answered with a
\* joke only if the turn immediately before it in the session was a joke turn;
\* after any other turn in between it is not.
C28_AnotherJokeGating ==
    [][(cTurn = NoTurn /\ AnotherOnly(cTurn'.msg) /\ cTurn'.reply.kind = "joke")
            => cHist.lastReply = "joke"]_vars

\* The sleep of the wrapper after a GroqAPIError at the given attempt when every
\* attempt before it raised one too: delay, then delay * backoff, ...
RECURSIVE GenericWait(_)
GenericWait(attempt) ==
    IF attempt <= 1 THEN RetryDelay ELSE RetryBackoff * GenericWait(attempt - 1)

\* C29: the waits of retry_groq_call between the up-to-3 attempts grow
\* exponentially: each wait is at least the backoff factor times the wait before
\* it; the wait after a rate-limit error is longer than the wait after a generic
\* API error at the same attempt; the generic-error wait is multiplied by the
\* backoff factor from one retry to the next; and no wait follows the final attempt.
C29_BackoffSchedule ==
    LET w == cTurn.waits
        o == cTurn.outs
    IN  /\ Len(w) < MaxAttempts
        /\ \A i \in 1..Len(w) :
              /\ o[i] = "rate_limit" => w[i] > GenericWait(i)
              /\ i > 1 => w[i] >= RetryBackoff * w[i - 1]
              /\ (i > 1 /\ o[i] = "api_error" /\ o[i - 1] = "api_error")
                    => w[i] = RetryBackoff * w[i - 1]

(***************************************************************************)
(* Loading the catalog.  A row of the CSV is its product_id and the rest   *)
(* of the row, named by its name column.  ProductCatalog.load of CLAUDE.py *)
(* and load_products of core/catalog.py read the same file.                *)
(***************************************************************************)
MaxRows == 3

CsvIds == {"b1", "b2", "b3"}
CsvNames == {"first", "other"}
CsvRow == [product_id : CsvIds, name : CsvNames]

\* df.drop_duplicates(subset=['product_id'], keep='first')
RECURSIVE drop_duplicates(_)
drop_duplicates(rows) ==
    IF rows = <<>> THEN <<>>
    ELSE LET n == Len(rows)
             front == drop_duplicates(SubSeq(rows, 1, n - 1))
         IN  IF \E i \in 1..(n - 1) : rows[i].product_id = rows[n].product_id
             THEN front ELSE Append(front, rows[n])

\* ProductCatalog.load(): the records kept, or CatalogLoadError for an empty file.
load(rows) ==
    IF rows = <<>> THEN [by |-> "CatalogLoadError", products |-> <<>>]
    ELSE [by |-> "load", products |-> drop_duplicates(rows)]

\* load_products(path): a Product appended per row of the reader.
load_products(rows) == [by |-> "load_products", products |-> rows]

NotLoaded == [by |-> "none", products |-> <<>>]

LoadIdle ==
    /\ csvRows = <<>>
    /\ loaded = NotLoaded

LoadInit ==
    /\ csvRows \in SeqsUpTo(CsvRow, MaxRows)
    /\ loaded = NotLoaded

CatalogLoad ==
    /\ loaded = NotLoaded
    /\ loaded' = load(csvRows)
    /\ UNCHANGED <<csvRows, sanVars, claudeVars, coreVars, flowVars, reloadVars, pTurn>>

LoadProducts ==
    /\ loaded = NotLoaded
    /\ loaded' = load_products(csvRows)
    /\ UNCHANGED <<csvRows, sanVars, claudeVars, coreVars, flowVars, reloadVars, pTurn>>

LoadNext == CatalogLoad \/ LoadProducts

\* The first row of the file that carries the identifier.
FirstRowOf(id) ==
    csvRows[CHOOSE i \in 1..Len(csvRows) :
                /\ csvRows[i].product_id = id
                /\ \A j \in 1..(i - 1) : csvRows[j].product_id # id]

\* C30: after the catalog is loaded no two products share an identifier, and for
\* each identifier the product kept is the first row of the file carrying it.
C30_DedupAtLoad ==
    loaded.by \in {"load", "load_products"}
        => LET ps == loaded.products
           IN  /\ \A i, j \in 1..Len(ps) : ps[i].product_id = ps[j].product_id => i = j
               /\ \A i \in 1..Len(ps) : ps[i] = FirstRowOf(ps[i].product_id)

\* No two consecutive entries of the history are user lines.
NoTwoUserEntries(h) == \A i \in 1..(Len(h) - 1) : ~(h[i] = "user" /\ h[i + 1] = "user")

\* C33: a turn of handle_message in which the LLM call raises leaves the session
\* state as it was before the turn; in particular the user line of that turn is
\* not left in the history, and the history never holds two consecutive user
\* entries.
C33_StateUnchangedOnFailure ==
    /\ NoTwoUserEntries(state.history)
    /\ kTurn.step = "raised"
            => (state.history = <<>> \/ state.history[Len(state.history)] # "user")

\* A follow-up question is pending.
FollowUpPending == state.awaiting_location_city \/ state.awaiting_shipping_place

\* C34: in every state reachable through handle_message, when a follow-up question
\* is pending (awaiting_location_city or awaiting_shipping_place) view_mode is
\* "none": a number is never both a menu selection and the follow-up answer.
C34_PendingExcludesBrowsing == FollowUpPending => state.view_mode = "none"

\* A follow-up was opened from a browse: the series of the browse are still
\* stored and the cursor is cancelled.
C34_Witness ==
    /\ CoreReturned
    /\ FollowUpPending
    /\ state.last_groups # <<>>
    /\ state.view_mode = "none"

\* C35: a shipping answer of handle_message names the international carrier (DHL)
\* only if the message carries an outside-KSA hint or the answer is to a pending
\* shipping follow-up; a fresh shipping question about a domestic place is
\* answered with the domestic carriers whatever was asked in earlier turns.
C35_CarrierFollowsDestination ==
    [][(MainTurnStarts /\ kTurn'.base.kind = "shipping_outside")
            => (country_outside_ksa_hint(kTurn'.msg) \/ state.awaiting_shipping_place)]_vars

\* The deterministic intent of a message that asks neither for the location nor
\* about shipping.
OtherIntent(m) ==
    IF is_location_question(m) \/ is_shipping_question(m) THEN "none"
    ELSE IF is_warranty_question(m) THEN "warranty"
    ELSE IF is_return_question(m) THEN "return"
    ELSE IF wants_menu(m) THEN "menu"
    ELSE "none"

\* C36: while awaiting_location_city or awaiting_shipping_place is true, a message
\* with another deterministic intent (warranty, return, menu) is answered as that
\* intent and is not taken as the city or destination.
C36_PendingCanBeAbandoned ==
    [][(MainTurnStarts /\ ~NothingPending /\ OtherIntent(kTurn'.msg) # "none")
            => /\ kTurn'.base.kind = OtherIntent(kTurn'.msg)
               /\ state'.last_intent = OtherIntent(kTurn'.msg)]_vars

\* The message is a number outside the range displayed at the cursor.
InvalidSelection(m, st) ==
    /\ is_number_choice(m)
    /\ \/ st.view_mode = "groups" /\ NumberOf(m) > Len(st.last_groups)
       \/ st.view_mode = "items" /\ NumberOf(m) > Len(st.last_items)

\* C37: when the cursor is at groups or items and the message is a number outside
\* the displayed range, view_mode, last_groups, last_group_items and last_items
\* after the turn equal their values before it, and no product detail is returned.
C37_InvalidSelectionKeepsBrowse ==
    [][(kTurn.step = "idle" /\ kTurn'.step = "call1" /\ InvalidSelection(kTurn'.msg, state))
            => /\ state'.view_mode = state.view_mode
               /\ state'.last_groups = state.last_groups
               /\ state'.last_group_items = state.last_group_items
               /\ state'.last_items = state.last_items
               /\ kTurn'.base.kind \notin {"detail", "found"}]_vars

\* The message is open-ended: it matches none of the intents of sections 1 to 6
\* and no classifier of section 7.
OpenEnded(m) ==
    /\ m # {}
    /\ ~is_joke_request(m) /\ ~is_another_joke_request(m)
    /\ ~is_probably_just_greeting(m)
    /\ detect_explicit_language_switch(m) = "none"
    /\ ~is_contact_query(m) /\ ~is_shipping_query(m) /\ ~is_warranty_query(m)
    /\ ~is_installment_query(m) /\ ~is_battery_query(m) /\ ~is_lifespan_query(m)
    /\ CategoriesOf(m) = {}
    /\ ~is_notes_intent(m) /\ ~wants_big_screen(m) /\ ~is_accessory_query(m)

\* C38: in handle_chat_message an open-ended message that matches no intent and
\* no category classifier is routed to the free-form LLM call in every session
\* state, also after a mode has been locked by an earlier turn.
C38_LlmFallbackReachable ==
    (cTurn # NoTurn /\ OpenEnded(cTurn.msg)) => (cTurn.exc = "calling" \/ cTurn.outs # <<>>)

(***************************************************************************)
(* handlers/catalog_flow.py and the catalog commands of pipeline_reply of  *)
(* handlers/pipeline.py.  The state is the catalog part of the ChatState   *)
(* these handlers read; None and the empty list are the same value, as     *)
(* every reader applies `or []`.  last_base_map feeds only the price text  *)
(* of a line and is left out.  The products are those all_products()       *)
(* returns, by base name, in the sorted order of last_base_list:           *)
(*   tablets_reading: BOOX Go 10, BOOX Go 6, BOOX Go 7, BOOX Note Air 3,   *)
(*                    BOOX Note Air 4, BOOX Palma       software: none     *)
(* A message is "menu", "back", "more", a number in digits, or another     *)
(* text.  group_map is kept as a function over every group name, with the  *)
(* empty list for a name the dict has no key for.                          *)
(***************************************************************************)
\* state.page_size
PageSize == 2

\* Largest number typed, and the offset past which "more" is not typed again.
MaxChoice == 4
MaxOffset == 6

FlowDigits == <<"1", "2", "3", "4", "5">>

FlowMessages == {"menu", "back", "more", "other"} \cup {FlowDigits[i] : i \in 1..MaxChoice}

\* is_number_choice(t) of core.formatting and int(choice)
flow_is_number(m) == \E i \in 1..Len(FlowDigits) : FlowDigits[i] = m
flow_int(m) == CHOOSE i \in 1..Len(FlowDigits) : FlowDigits[i] = m

\* category_from_choice(t) of core.menu for the numbers of the menu.
category_from_choice(m) ==
    IF m = "1" THEN "tablets_reading" ELSE IF m = "2" THEN "software" ELSE "none"

FlowBases(cat) ==
    IF cat = "tablets_reading" THEN <<"go10", "go6", "go7", "air3", "air4", "palma">> ELSE <<>>

\* _group_key(base)
group_key(base) ==
    CASE base \in {"go10", "go6", "go7"} -> "BOOX Go"
      [] base \in {"air3", "air4"} -> "BOOX Note Air"
      [] OTHER -> "BOOX Palma"

\* The group names in the order of sorted(..., key=str.lower).
FlowGroupOrder == <<"BOOX Go", "BOOX Note Air", "BOOX Palma">>
FlowGroups == {FlowGroupOrder[i] : i \in 1..Len(FlowGroupOrder)}
NoGroupMap == [g \in FlowGroups |-> <<>>]

NewFlowState ==
    [catalog_level |-> "categories", last_category |-> "none", last_base_list |-> <<>>,
     group_list |-> <<>>, group_map |-> NoGroupMap, selected_group |-> "none",
     selected_base |-> "none", list_offset |-> 0]

\* What a reply shows: the kind of page and the numbered lines on it.
FlowPage(kind, entries) == [kind |-> kind, entries |-> entries]
FlowResult(page, st) == [page |-> page, st |-> st]

\* reset_catalog(state); the last branch of page_back assigns the same values.
reset_catalog(st) == NewFlowState

\* build_groups(state)
build_groups(st) ==
    LET bases == st.last_base_list
        keys == {group_key(bases[i]) : i \in 1..Len(bases)}
        InGroup(g) == LET Test(b) == group_key(b) = g IN SelectSeq(bases, Test)
        Present(g) == g \in keys
    IN  [st EXCEPT !.group_list = SelectSeq(FlowGroupOrder, Present),
                   !.group_map = [g \in FlowGroups |-> InGroup(g)],
                   !.selected_group = "none"]

\* The list render_models_page and select_model read: the group's, when one is selected.
ModelList(st) ==
    IF st.selected_group # "none" /\ st.group_map # NoGroupMap
    THEN st.group_map[st.selected_group]
    ELSE st.last_base_list

\* render_models_page(state), preceded by the variant that numbers every page from 1.
render_models_page_from_one(st) ==
    LET base_list == ModelList(st)
        off == st.list_offset
        last == IF off + PageSize < Len(base_list) THEN off + PageSize ELSE Len(base_list)
    IN  FlowResult(FlowPage("models", {<<i - off, base_list[i]>> : i \in (off + 1)..last}), st)

render_models_page(st) ==
    LET base_list == ModelList(st)
        off == st.list_offset
        last == IF off + PageSize < Len(base_list) THEN off + PageSize ELSE Len(base_list)
    IN  FlowResult(FlowPage("models", {<<i, base_list[i]>> : i \in (off + 1)..last}), st)

\* render_groups_page(state)
render_groups_page(st) ==
    IF st.group_list = <<>>
    THEN render_models_page([st EXCEPT !.catalog_level = "models"])
    ELSE FlowResult(FlowPage("groups", {<<i, st.group_list[i]>> : i \in 1..Len(st.group_list)}), st)

\* list_category(cat, state)
list_category(cat, st) ==
    LET st1 == [st EXCEPT !.last_category = cat, !.last_base_list = FlowBases(cat),
                          !.list_offset = 0, !.catalog_level = "groups",
                          !.selected_base = "none"]
    IN  IF FlowBases(cat) = <<>> THEN FlowResult(FlowPage("no_products", {}), st1)
        ELSE render_groups_page(build_groups(st1))

\* select_group(choice, state) for a choice made of digits
select_group(n, st) ==
    IF st.group_list = <<>>
    THEN render_models_page([st EXCEPT !.catalog_level = "models"])
    ELSE IF n < 1 \/ n > Len(st.group_list) THEN FlowResult(FlowPage("bad_number", {}), st)
    ELSE render_models_page([st EXCEPT !.selected_group = st.group_list[n],
                                       !.catalog_level = "models", !.list_offset = 0])

\* select_model(choice, state) for a choice made of digits
select_model(n, st) ==
    LET base_list == ModelList(st)
    IN  IF base_list = <<>>
        THEN FlowResult(FlowPage("menu", {}), [st EXCEPT !.catalog_level = "categories"])
        ELSE IF n < 1 \/ n > Len(base_list) THEN FlowResult(FlowPage("bad_number", {}), st)
        ELSE FlowResult(FlowPage("detail", {}),
                        [st EXCEPT !.selected_base = base_list[n], !.catalog_level = "detail"])

\* page_more(state)
page_more(st) == render_models_page([st EXCEPT !.list_offset = @ + PageSize])

\* page_back(state)
page_back(st) ==
    IF st.catalog_level = "detail"
    THEN render_models_page([st EXCEPT !.catalog_level = "models", !.selected_base = "none"])
    ELSE IF st.catalog_level = "models"
    THEN render_groups_page([st EXCEPT !.catalog_level = "groups", !.selected_group = "none",
                                       !.list_offset = 0])
    ELSE FlowResult(FlowPage("menu", {}), reset_catalog(st))

\* pipeline_reply(user_text, state) for a text that is a command, a number or a
\* text none of the other handlers answers.
pipeline_reply(m, st) ==
    IF m = "menu" THEN FlowResult(FlowPage("menu", {}), reset_catalog(st))
    ELSE IF m = "back" THEN page_back(st)
    ELSE IF m = "more" THEN page_more(st)
    ELSE IF st.catalog_level = "groups" /\ flow_is_number(m) THEN select_group(flow_int(m), st)
    ELSE IF st.catalog_level \in {"models", "detail"} /\ flow_is_number(m)
    THEN select_model(flow_int(m), st)
    ELSE IF st.catalog_level = "categories" /\ category_from_choice(m) # "none"
    THEN list_category(category_from_choice(m), st)
    ELSE IF st.catalog_level \in {"groups", "models", "detail"}
    THEN FlowResult(FlowPage("type_a_number", {}), st)
    ELSE FlowResult(FlowPage("not_understood", {}), st)

FlowIdle ==
    /\ fState = NewFlowState
    /\ fShown = FlowPage("none", {})

FlowReceive(m) ==
    /\ m = "more" => fState.list_offset + PageSize <= MaxOffset
    /\ fState' = pipeline_reply(m, fState).st
    /\ fShown' = pipeline_reply(m, fState).page
    /\ UNCHANGED <<sanVars, claudeVars, coreVars, loadVars, reloadVars, pTurn>>

FlowNext == \E m \in FlowMessages : FlowReceive(m)

\* C39: on every page shown by render_groups_page or render_models_page, at any
\* offset reached through "more" and "back", with or without a selected group,
\* the number printed beside a group or model is the number for which
\* select_group or select_model selects exactly that group or model.
C39_DisplayedNumberSelects ==
    \A e \in fShown.entries :
        /\ fShown.kind = "groups" => select_group(e[1], fState).st.selected_group = e[2]
        /\ fShown.kind = "models" => select_model(e[1], fState).st.selected_base = e[2]

\* A second page of the models of a selected group is shown.
C39_Witness ==
    /\ fShown.kind = "models"
    /\ fShown.entries # {}
    /\ fState.list_offset > 0
    /\ fState.selected_group # "none"

\* C40: after any sequence of menu, category, group and model selections and
\* "more" / "back" commands, list_offset is 0 or the start of an existing page of
\* the current model list: below the length of the list.
C40_OffsetInRange ==
    fState.list_offset = 0 \/ fState.list_offset < Len(ModelList(fState))

(***************************************************************************)
(* ProductCatalog.load(force_reload=True) of src/CLAUDE.py running in one  *)
(* thread while search_products runs in the threads of the sessions.  A    *)
(* list is an object of the heap: self.products holds a reference to one,  *)
(* and a running search holds the reference it read.  The catalog has been *)
(* loaded once before the sessions start, so self.products is not None.    *)
(* The file on disk is replaced by its maintainer at any time.             *)
(***************************************************************************)
\* Calls of load(force_reload=True) made in one behaviour.
MaxReloads == 2

ReloadSessions == {"u1", "u2"}

RowsA == <<[product_id |-> "b1", name |-> "first"], [product_id |-> "b2", name |-> "first"]>>
RowsB ==
    <<[product_id |-> "b3", name |-> "first"], [product_id |-> "b1", name |-> "other"],
      [product_id |-> "b3", name |-> "other"]>>

\* The file: absent, not parseable, or its rows.
FileStates ==
    {[status |-> "missing", rows |-> <<>>], [status |-> "unreadable", rows |-> <<>>],
     [status |-> "ok", rows |-> <<>>], [status |-> "ok", rows |-> RowsA],
     [status |-> "ok", rows |-> RowsB]}

LoadAtRest == [pc |-> "idle", calls |-> 0, old |-> <<>>]
SearchAtRest == [pc |-> "idle", ref |-> 0, from |-> 0, i |-> 0, seen |-> <<>>]

\* self.products = self.df.to_dict('records'), preceded by the variant that
\* refills the list object already published.
assign_products_in_place(heap, products, df) ==
    [heap |-> [heap EXCEPT ![products] = df], products |-> products]

assign_products(heap, products, df) ==
    [heap |-> Append(heap, df), products |-> Len(heap) + 1]

ReloadIdle ==
    /\ rFile = [status |-> "ok", rows |-> RowsA]
    /\ rDf = drop_duplicates(RowsA)
    /\ rHeap = <<drop_duplicates(RowsA)>>
    /\ rProducts = 1
    /\ rLoad = LoadAtRest
    /\ rSearch = [s \in ReloadSessions |-> SearchAtRest]

\* The maintainer replaces, removes or damages the file.
FileChange(f) ==
    /\ f # rFile
    /\ rFile' = f
    /\ UNCHANGED <<rDf, rHeap, rProducts, rLoad, rSearch, sanVars, claudeVars, coreVars, loadVars, flowVars, pTurn>>

\* load(force_reload): the early return, then os.path.exists.
LoadCall(force) ==
    /\ rLoad.pc = "idle"
    /\ force => rLoad.calls < MaxReloads
    /\ rLoad' = IF ~force THEN rLoad
                ELSE [pc |-> IF rFile.status = "missing" THEN "raised" ELSE "exists",
                      calls |-> rLoad.calls + 1, old |-> rHeap[rProducts]]
    /\ UNCHANGED <<rFile, rDf, rHeap, rProducts, rSearch, sanVars, claudeVars, coreVars, loadVars, flowVars, pTurn>>

\* self.df = pd.read_csv(...), CatalogLoadError when it raises.
LoadRead ==
    /\ rLoad.pc = "exists"
    /\ IF rFile.status = "ok"
       THEN rDf' = rFile.rows /\ rLoad' = [rLoad EXCEPT !.pc = "read"]
       ELSE rDf' = rDf /\ rLoad' = [rLoad EXCEPT !.pc = "raised"]
    /\ UNCHANGED <<rFile, rHeap, rProducts, rSearch, sanVars, claudeVars, coreVars, loadVars, flowVars, pTurn>>

\* The empty check, fillna and drop_duplicates on self.df.
LoadClean ==
    /\ rLoad.pc = "read"
    /\ IF rDf = <<>>
       THEN rDf' = rDf /\ rLoad' = [rLoad EXCEPT !.pc = "raised"]
       ELSE rDf' = drop_duplicates(rDf) /\ rLoad' = [rLoad EXCEPT !.pc = "clean"]
    /\ UNCHANGED <<rFile, rHeap, rProducts, rSearch, sanVars, claudeVars, coreVars, loadVars, flowVars, pTurn>>

\* self.products = self.df.to_dict('records') and the return.
LoadAssign ==
    /\ rLoad.pc = "clean"
    /\ rHeap' = assign_products(rHeap, rProducts, rDf).heap
    /\ rProducts' = assign_products(rHeap, rProducts, rDf).products
    /\ rLoad' = [rLoad EXCEPT !.pc = "idle"]
    /\ UNCHANGED <<rFile, rDf, rSearch, sanVars, claudeVars, coreVars, loadVars, flowVars, pTurn>>

\* The caller of load receives the CatalogLoadError.
LoadRaised ==
    /\ rLoad.pc = "raised"
    /\ rLoad' = [rLoad EXCEPT !.pc = "idle"]
    /\ UNCHANGED <<rFile, rDf, rHeap, rProducts, rSearch, sanVars, claudeVars, coreVars, loadVars, flowVars, pTurn>>

\* search_products: `if self.products is None` is false after the first load.
SearchCall(s) ==
    /\ rSearch[s].pc = "idle"
    /\ rProducts # 0
    /\ rSearch' = [rSearch EXCEPT ![s] = [pc |-> "called", ref |-> 0, from |-> rProducts,
                                          i |-> 0, seen |-> <<>>]]
    /\ UNCHANGED <<rFile, rDf, rHeap, rProducts, rLoad, sanVars, claudeVars, coreVars, loadVars, flowVars, pTurn>>

\* `for p in self.products or []` reads the attribute once.
SearchIter(s) ==
    /\ rSearch[s].pc = "called"
    /\ rSearch' = [rSearch EXCEPT ![s].pc = "scan", ![s].ref = rProducts, ![s].i = 1]
    /\ UNCHANGED <<rFile, rDf, rHeap, rProducts, rLoad, sanVars, claudeVars, coreVars, loadVars, flowVars, pTurn>>

\* One turn of the loop: the next element of the list object, or the end of it.
SearchScan(s) ==
    /\ rSearch[s].pc = "scan"
    /\ LET list == rHeap[rSearch[s].ref]
           i == rSearch[s].i
       IN  rSearch' = IF i <= Len(list)
                      THEN [rSearch EXCEPT ![s].seen = Append(@, list[i]), ![s].i = i + 1]
                      ELSE [rSearch EXCEPT ![s].pc = "done"]
    /\ UNCHANGED <<rFile, rDf, rHeap, rProducts, rLoad, sanVars, claudeVars, coreVars, loadVars, flowVars, pTurn>>

\* The search returns; the session may search again.
SearchReturn(s) ==
    /\ rSearch[s].pc = "done"
    /\ rSearch' = [rSearch EXCEPT ![s] = SearchAtRest]
    /\ UNCHANGED <<rFile, rDf, rHeap, rProducts, rLoad, sanVars, claudeVars, coreVars, loadVars, flowVars, pTurn>>

ReloadNext ==
    \/ \E f \in FileStates : FileChange(f)
    \/ \E force \in BOOLEAN : LoadCall(force)
    \/ LoadRead
    \/ LoadClean
    \/ LoadAssign
    \/ LoadRaised
    \/ \E s \in ReloadSessions : SearchCall(s) \/ SearchIter(s) \/ SearchScan(s) \/ SearchReturn(s)

\* The lists self.products referred to since the search of session s was called.
ListsDuring(s) == {rHeap[k] : k \in rSearch[s].from..rProducts}

\* C31: while load(force_reload=True) runs beside the searches of the sessions,
\* what a search has read is a prefix of one complete product list, the old or
\* a new one, and a finished search has read exactly one complete list; a
\* reload that raised leaves the previously loaded list in place.
C31_AtomicReload ==
    /\ \A s \in ReloadSessions :
          /\ rSearch[s].pc = "scan" => \E l \in ListsDuring(s) : IsPrefixOf(rSearch[s].seen, l)
          /\ rSearch[s].pc = "done" => rSearch[s].seen \in ListsDuring(s)
    /\ rLoad.pc = "raised" => rHeap[rProducts] = rLoad.old

\* A search that started on the old list ends after a reload replaced it, and
\* another reload has failed.
C31_Witness ==
    /\ \E s \in ReloadSessions :
          /\ rSearch[s].pc = "done"
          /\ rSearch[s].ref < rProducts
          /\ rSearch[s].seen # rHeap[rProducts]
    /\ rLoad.pc = "raised"
    /\ rLoad.calls = 2

(***************************************************************************)
(* pipeline_reply of src/prev/Test_Full_pipeline.py with rule_based_reply  *)
(* of src/prev/rules.py.  A message is up to MaxPriceWords words of a      *)
(* small vocabulary separated by spaces, with or without a closing "؟":    *)
(*   bikam بكم   kam كم   sier سعر   sierh سعره   alsier السعر            *)
(*   almuntaj المنتج   aljihaz الجهاز   hatha هذا                          *)
(*   boox بووكس   go   n24 24   kafar كفر   alkafar الكفر                  *)
(* The tokenizer's character class holds "؟" (U+061F), so the mark stays   *)
(* on the last token.  What find_products and get_faq_answer return is an  *)
(* input of the turn.                                                      *)
(***************************************************************************)
MaxPriceWords == 3

PriceWords == {"bikam", "kam", "sier", "sierh", "alsier"}
GenericWords == {"almuntaj", "aljihaz", "hatha"}
CategoryHints == {"kafar"}
PVocab == PriceWords \cup GenericWords \cup CategoryHints \cup {"boox", "go", "n24", "alkafar"}

PriceMessages == [words : SeqsUpTo(PVocab, MaxPriceWords) \ {<<>>}, qmark : BOOLEAN]

\* len() of the word as a token
PLen(w) ==
    CASE w \in {"kam", "go", "n24"} -> 2
      [] w \in {"bikam", "sier", "hatha", "kafar"} -> 3
      [] w = "sierh" -> 4
      [] w \in {"alsier", "boox", "alkafar"} -> 5
      [] OTHER -> 6

\* tokens(text) and _tokenize(t): the words, the last one carrying the mark.
price_tokens(m) ==
    [i \in 1..Len(m.words) |->
        LET marked == m.qmark /\ i = Len(m.words)
        IN  [w |-> m.words[i], bare |-> ~marked,
             len |-> PLen(m.words[i]) + (IF marked THEN 1 ELSE 0)]]

\* is_price_question(text): a price word between non-word characters.
is_price_question(m) == \E i \in 1..Len(m.words) : m.words[i] \in PriceWords

\* rules._has_product_hint(toks)
rules_has_product_hint(toks) ==
    \E i \in 1..Len(toks) : ~(toks[i].bare /\ toks[i].w \in GenericWords) /\ toks[i].len >= 2

\* rules._has_category_hint(toks): "كفر" is one of _CATEGORY_HINTS, "الكفر" is not.
has_category_hint(toks) == \E i \in 1..Len(toks) : toks[i].bare /\ toks[i].w \in CategoryHints

\* rule_based_reply(user_text): TRUE when it returns the generic price welcome.
rule_based_reply(m) ==
    /\ is_price_question(m)
    /\ ~rules_has_product_hint(price_tokens(m))
    /\ ~has_category_hint(price_tokens(m))

\* _has_product_hint(t) of Test_Full_pipeline.py
has_product_hint(m) ==
    LET toks == price_tokens(m)
        meaningful == {i \in 1..Len(toks) : toks[i].len >= 3}
    IN  \/ \E i \in 1..Len(toks) : toks[i].w = "boox"
        \/ \E i \in 1..Len(toks) : toks[i].w = "n24" /\ toks[i].bare
        \/ \E i \in 1..Len(toks) : toks[i].w \in {"go", "boox"} /\ toks[i].bare
        \/ Cardinality(meaningful) >= 2

\* _is_case_query(t), the one category test a word of the vocabulary meets.
is_case_query(m) == \E i \in 1..Len(m.words) : m.words[i] \in {"kafar", "alkafar"}

\* pipeline_reply(user_text): the tag of the reply and the calls made.
prev_pipeline_reply(m, hit, faq) ==
    IF rule_based_reply(m) THEN [tag |-> "RULE", text |-> "generic_price_welcome", calls |-> {}]
    ELSE IF is_price_question(m)
    THEN IF ~is_case_query(m) /\ ~has_product_hint(m)
         THEN [tag |-> "RULE", text |-> "write_the_model", calls |-> {}]
         ELSE IF hit THEN [tag |-> "CATALOG", text |-> "catalog", calls |-> {"find_products"}]
         ELSE [tag |-> "AI", text |-> "clarify", calls |-> {"find_products", "ai_clarify"}]
    ELSE IF faq THEN [tag |-> "FAQ", text |-> "faq", calls |-> {"get_faq_answer"}]
    ELSE [tag |-> "AI", text |-> "ai", calls |-> {"get_faq_answer", "ai_reply"}]

NoPriceReply == [tag |-> "none", text |-> "none", calls |-> {}]

PriceIdle ==
    pTurn = [msg |-> [words |-> <<>>, qmark |-> FALSE], hit |-> FALSE, faq |-> FALSE,
             out |-> NoPriceReply]

\* One call of pipeline_reply, as main makes for each test input.
PriceInit == pTurn \in [msg : PriceMessages, hit : BOOLEAN, faq : BOOLEAN, out : {NoPriceReply}]

PriceReceive ==
    /\ pTurn.out = NoPriceReply
    /\ pTurn.msg.words # <<>>
    /\ pTurn' = [pTurn EXCEPT !.out = prev_pipeline_reply(pTurn.msg, pTurn.hit, pTurn.faq)]
    /\ UNCHANGED <<sanVars, claudeVars, coreVars, loadVars, flowVars, reloadVars>>

PriceNext == PriceReceive

\* A price question made only of price words and generic words.
UltraGeneric(m) ==
    /\ m.words # <<>>
    /\ is_price_question(m)
    /\ \A i \in 1..Len(m.words) : m.words[i] \in PriceWords \cup GenericWords

\* C32: for a price question made only of price words and generic words,
\* pipeline_reply returns a canned "write the device/model name" [RULE] reply
\* and makes neither a catalog search nor an AI call.
C32_UltraGenericPrice ==
    (UltraGeneric(pTurn.msg) /\ pTurn.out # NoPriceReply)
        => (pTurn.out.tag = "RULE" /\ pTurn.out.calls = {})

(***************************************************************************)
(* Specifications.                                                         *)
(***************************************************************************)
InitSan == SanInit /\ ClaudeIdle /\ CoreIdle /\ LoadIdle /\ FlowIdle /\ ReloadIdle /\ PriceIdle

SpecSan == InitSan /\ [][SanNext]_vars

InitClaude == SanIdle /\ ClaudeInit /\ CoreIdle /\ LoadIdle /\ FlowIdle /\ ReloadIdle /\ PriceIdle

SpecClaude == InitClaude /\ [][ClaudeNext]_vars

Init == SanIdle /\ ClaudeIdle /\ CoreInit /\ LoadIdle /\ FlowIdle /\ ReloadIdle /\ PriceIdle

Next == CoreNext

Spec == Init /\ [][Next]_vars

InitLoad == SanIdle /\ ClaudeIdle /\ CoreIdle /\ LoadInit /\ FlowIdle /\ ReloadIdle /\ PriceIdle

SpecLoad == InitLoad /\ [][LoadNext]_vars

InitFlow == SanIdle /\ ClaudeIdle /\ CoreIdle /\ LoadIdle /\ FlowIdle /\ ReloadIdle /\ PriceIdle

SpecFlow == InitFlow /\ [][FlowNext]_vars

InitReload == SanIdle /\ ClaudeIdle /\ CoreIdle /\ LoadIdle /\ FlowIdle /\ ReloadIdle /\ PriceIdle

SpecReload == InitReload /\ [][ReloadNext]_vars

InitPrice == SanIdle /\ ClaudeIdle /\ CoreIdle /\ LoadIdle /\ FlowIdle /\ ReloadIdle /\ PriceInit

SpecPrice == InitPrice /\ [][PriceNext]_vars

====
